---- MODULE Spec2Model ----
(***************************************************************************)
(* GTRusthop: the isolated planner instance (Planner::find_plan with its   *)
(* iterative and recursive shapes), the Domain registry it looks callables *)
(* up in, and the State / Multigoal / PlanItem data it works on.           *)
(*                                                                         *)
(* One behaviour is one harness run: a Planner is built for a domain, and  *)
(* find_plan is called on the same (state, todo) first with strategy      *)
(* Iterative and then with strategy Recursive.  The iterative shape is a   *)
(* loop, one iteration per step; the recursive shape is a recursive        *)
(* function and is computed by a recursive operator.                       *)
(***************************************************************************)
EXTENDS Integers, Sequences, FiniteSets, TLC

VARIABLES planner, state0, todo0, todo1, pc, stack, results, rll, caller, globals,
          building, probe

vars == <<planner, state0, todo0, todo1, pc, stack, results, rll, caller, globals,
          building, probe>>

(***************************************************************************)
(* Bounds of the model.                                                    *)
(***************************************************************************)
\* longest initial todo list drawn as input
MaxTodo == 2
\* deepest frame either shape may expand (the engine itself has no limit)
MaxDepth == 9
\* largest max_tries given to run_lazy_lookahead
MaxTries == 3
\* most configuration calls one caller makes
MaxOps == 3
\* most declarations made on one domain
MaxDeclared == 3

(***************************************************************************)
(* Option and StateValue.                                                  *)
(***************************************************************************)
None == [some |-> FALSE]
Some(x) == [some |-> TRUE, val |-> x]

\* serde_json::Value, restricted to the numbers and strings the domains use
Num(n) == [t |-> "n", n |-> n, s |-> ""]
Str(s) == [t |-> "s", n |-> 0, s |-> s]
Null == [t |-> "null", n |-> 0, s |-> ""]
\* a Multigoal serialized to a Value (serde_json::to_value)
Obj(mg) == [t |-> "o", n |-> 0, s |-> "", o |-> mg]
IsI64(v) == v.t = "n"
IsStr(v) == v.t = "s"

(***************************************************************************)
(* State (core/state.rs).  variables is the two-level map, here a function *)
(* on the set of <<var_name, arg>> pairs present.  A state's name is its   *)
(* base name followed by one "_copy_<n>" per copy(None) in its ancestry,   *)
(* kept as the sequence of those n.                                        *)
(***************************************************************************)
StateNew == [name |-> <<>>, variables |-> <<>>, copy_counter |-> 0]

set_var(state, var_name, arg, value) ==
    [state EXCEPT !.variables =
        [c \in (DOMAIN state.variables) \cup {<<var_name, arg>>} |->
            IF c = <<var_name, arg>> THEN value ELSE state.variables[c]]]

has_var_arg(state, var_name, arg) == <<var_name, arg>> \in DOMAIN state.variables

get_var(state, var_name, arg) ==
    IF has_var_arg(state, var_name, arg)
    THEN Some(state.variables[<<var_name, arg>>])
    ELSE None

StateCopy(state) ==
    [state EXCEPT !.name = Append(state.name, state.copy_counter),
                  !.copy_counter = state.copy_counter + 1]

satisfies_unigoal(state, var_name, arg, desired_value) ==
    get_var(state, var_name, arg) = Some(desired_value)

(***************************************************************************)
(* Multigoal (core/multigoal.rs).  variables is an IndexMap: a sequence of *)
(* [var, goal_map, hasher] entries in insertion order of the variables.    *)
(* A goal_map is a HashMap: its [arg, value] entries are kept here in      *)
(* insertion order, and the order in which it iterates is decided by the   *)
(* keys of its hasher, which HashMap::default() draws when the map is      *)
(* created.  random_state stands for the keys the next map will draw.      *)
(***************************************************************************)
Rev(s) == [i \in 1..Len(s) |-> s[Len(s) + 1 - i]]

\* the keys a hasher may have drawn: a map of up to two entries iterates in
\* one of its two orders
HasherKeys == {"k0", "k1"}

\* the entries of a HashMap in the order the map iterates
Iterate(goal_map, hasher) == IF hasher = "k0" THEN goal_map ELSE Rev(goal_map)

MultigoalNew(name) ==
    [name |-> name, variables |-> <<>>, copy_counter |-> 0, random_state |-> "k0"]

\* the multigoal when the maps it creates draw the keys k
WithRandomState(mg, k) == [mg EXCEPT !.random_state = k]

RECURSIVE VarIndex(_, _, _)
VarIndex(variables, var_name, i) ==
    IF i > Len(variables) THEN 0
    ELSE IF variables[i].var = var_name THEN i
    ELSE VarIndex(variables, var_name, i + 1)

RECURSIVE ArgIndex(_, _, _)
ArgIndex(goal_map, arg, i) ==
    IF i > Len(goal_map) THEN 0
    ELSE IF goal_map[i].arg = arg THEN i
    ELSE ArgIndex(goal_map, arg, i + 1)

MapInsert(goal_map, arg, value) ==
    LET j == ArgIndex(goal_map, arg, 1) IN
    IF j = 0 THEN Append(goal_map, [arg |-> arg, value |-> value])
    ELSE [goal_map EXCEPT ![j].value = value]

set_goal(mg, var_name, arg, value) ==
    LET i == VarIndex(mg.variables, var_name, 1) IN
    IF i = 0
    THEN [mg EXCEPT !.variables =
             Append(@, [var |-> var_name, goal_map |-> MapInsert(<<>>, arg, value),
                        hasher |-> mg.random_state])]
    ELSE [mg EXCEPT !.variables[i].goal_map = MapInsert(@, arg, value)]

get_goal(mg, var_name, arg) ==
    LET i == VarIndex(mg.variables, var_name, 1) IN
    IF i = 0 THEN None
    ELSE LET j == ArgIndex(mg.variables[i].goal_map, arg, 1) IN
         IF j = 0 THEN None ELSE Some(mg.variables[i].goal_map[j].value)

RECURSIVE to_unigoals_from(_, _)
to_unigoals_from(variables, i) ==
    IF i > Len(variables) THEN <<>>
    ELSE LET entries == Iterate(variables[i].goal_map, variables[i].hasher)
         IN  [j \in 1..Len(entries) |->
                 <<variables[i].var, entries[j].arg, entries[j].value>>]
             \o to_unigoals_from(variables, i + 1)

to_unigoals(mg) == to_unigoals_from(mg.variables, 1)

\* PartialEq of Multigoal: the maps are compared by their entries only
MultigoalEq(a, b) ==
    LET Entries(mg) == [mg EXCEPT !.random_state = "k0",
                           !.variables = [i \in 1..Len(mg.variables) |->
                                             [mg.variables[i] EXCEPT !.hasher = "k0"]]]
    IN  Entries(a) = Entries(b)

\* mutant: a cell the state does not have counts as satisfied
is_satisfied_by_missingOk(mg, state) ==
    \A i \in 1..Len(mg.variables) :
        \A j \in 1..Len(mg.variables[i].goal_map) :
            has_var_arg(state, mg.variables[i].var, mg.variables[i].goal_map[j].arg)
              => satisfies_unigoal(state, mg.variables[i].var,
                                   mg.variables[i].goal_map[j].arg,
                                   mg.variables[i].goal_map[j].value)

is_satisfied_by(mg, state) ==
    \A i \in 1..Len(mg.variables) :
        \A j \in 1..Len(mg.variables[i].goal_map) :
            satisfies_unigoal(state, mg.variables[i].var,
                              mg.variables[i].goal_map[j].arg,
                              mg.variables[i].goal_map[j].value)

\* the cells that are not satisfied, as the map unsatisfied_goals builds:
\* a function on the <<var_name, arg>> pairs it holds
unsatisfied_goals(mg, state) ==
    LET cells == UNION { { <<i, j>> : j \in
                             { j \in 1..Len(mg.variables[i].goal_map) :
                                 ~satisfies_unigoal(state, mg.variables[i].var,
                                                    mg.variables[i].goal_map[j].arg,
                                                    mg.variables[i].goal_map[j].value) } } :
                         i \in 1..Len(mg.variables) }
        Key(c) == <<mg.variables[c[1]].var, mg.variables[c[1]].goal_map[c[2]].arg>>
    IN  [k \in {Key(c) : c \in cells} |->
            LET c == CHOOSE c \in cells : Key(c) = k
            IN  mg.variables[c[1]].goal_map[c[2]].value]

(***************************************************************************)
(* PlanItem (core/mod.rs).  One record shape for the four variants; the    *)
(* fields a variant does not have hold a fixed filler.                     *)
(***************************************************************************)
NoMg == MultigoalNew("")

Task(name, args) ==
    [kind |-> "Task", name |-> name, args |-> args, arg |-> "", value |-> Null, mg |-> NoMg]
Action(name, args) ==
    [kind |-> "Action", name |-> name, args |-> args, arg |-> "", value |-> Null, mg |-> NoMg]
Unigoal(var_name, arg, value) ==
    [kind |-> "Unigoal", name |-> var_name, args |-> <<>>, arg |-> arg, value |-> value, mg |-> NoMg]
MultigoalItem(mg) ==
    [kind |-> "Multigoal", name |-> mg.name, args |-> <<>>, arg |-> "", value |-> Null, mg |-> mg]

\* PartialEq of PlanItem and of Vec<PlanItem>
PlanItemEq(a, b) == [a EXCEPT !.mg = NoMg] = [b EXCEPT !.mg = NoMg] /\ MultigoalEq(a.mg, b.mg)

TodoEq(a, b) == Len(a) = Len(b) /\ \A k \in 1..Len(a) : PlanItemEq(a[k], b[k])

(***************************************************************************)
(* Domain (core/domain.rs).  A registry maps a name to a callable, or to   *)
(* the list of its method callables in registration order; callables are   *)
(* named by identifiers and run by the Call operators below.               *)
(***************************************************************************)
MapPut(m, k, v) == [x \in (DOMAIN m) \cup {k} |-> IF x = k THEN v ELSE m[x]]

add_builtin_methods(domain) ==
    [domain EXCEPT !.task_methods =
        MapPut(MapPut(@, "_verify_g", <<"verify_g_method">>),
               "_verify_mg", <<"verify_mg_method">>)]

DomainNew(name) ==
    add_builtin_methods(
        [name |-> name, actions |-> <<>>, commands |-> <<>>, task_methods |-> <<>>,
         unigoal_methods |-> <<>>, multigoal_methods |-> <<>>, copy_counter |-> 0])

declare_action(domain, name, action_fn) ==
    [domain EXCEPT !.actions = MapPut(@, name, action_fn)]

declare_command(domain, name, command_fn) ==
    [domain EXCEPT !.commands = MapPut(@, name, command_fn)]

\* mutant: a later declaration replaces the methods of the name
declare_task_methods_replacing(domain, task_name, methods) ==
    [domain EXCEPT !.task_methods = MapPut(@, task_name, methods)]

declare_task_methods(domain, task_name, methods) ==
    [domain EXCEPT !.task_methods =
        IF task_name \in DOMAIN @
        THEN [@ EXCEPT ![task_name] = @ \o methods]
        ELSE MapPut(@, task_name, methods)]

declare_task_method(domain, task_name, method_fn) ==
    declare_task_methods(domain, task_name, <<method_fn>>)

declare_unigoal_methods(domain, var_name, methods) ==
    [domain EXCEPT !.unigoal_methods =
        IF var_name \in DOMAIN @
        THEN [@ EXCEPT ![var_name] = @ \o methods]
        ELSE MapPut(@, var_name, methods)]

declare_unigoal_method(domain, var_name, method_fn) ==
    declare_unigoal_methods(domain, var_name, <<method_fn>>)

declare_multigoal_methods(domain, methods) ==
    [domain EXCEPT !.multigoal_methods = @ \o methods]

declare_multigoal_method(domain, method_fn) ==
    declare_multigoal_methods(domain, <<method_fn>>)

get_action(domain, name) ==
    IF name \in DOMAIN domain.actions THEN Some(domain.actions[name]) ELSE None

get_command(domain, name) ==
    IF name \in DOMAIN domain.commands THEN Some(domain.commands[name]) ELSE None

get_task_methods(domain, task_name) ==
    IF task_name \in DOMAIN domain.task_methods
    THEN Some(domain.task_methods[task_name]) ELSE None

get_unigoal_methods(domain, var_name) ==
    IF var_name \in DOMAIN domain.unigoal_methods
    THEN Some(domain.unigoal_methods[var_name]) ELSE None

get_multigoal_methods(domain) == domain.multigoal_methods

has_action(domain, name) == name \in DOMAIN domain.actions

has_command(domain, name) == name \in DOMAIN domain.commands

has_task_methods(domain, task_name) == task_name \in DOMAIN domain.task_methods

has_unigoal_methods(domain, var_name) == var_name \in DOMAIN domain.unigoal_methods

(***************************************************************************)
(* The callables the domains of this model register.                       *)
(***************************************************************************)
\* putv, getv: examples/backtracking_htn_example.rs; move: the planner tests
CallAction(action_fn, state, args) ==
    CASE action_fn = "putv" ->
           IF Len(args) >= 1 /\ IsI64(args[1])
           THEN Some(set_var(state, "flag", "value", args[1]))
           ELSE None
      [] action_fn = "getv" ->
           IF Len(args) >= 1 /\ IsI64(args[1])
              /\ get_var(state, "flag", "value") = Some(args[1])
           THEN Some(state)
           ELSE None
      [] action_fn = "move" ->
           IF Len(args) >= 2 /\ IsStr(args[1]) /\ IsStr(args[2])
           THEN Some(set_var(state, "loc", args[1].s, args[2]))
           ELSE None
      [] OTHER -> None

\* mutant: the arguments are looked at, the state is not
verify_g_method_simplified(state, args) ==
    IF Len(args) >= 5 /\ IsStr(args[1]) /\ IsStr(args[2]) /\ IsStr(args[3])
       /\ IsI64(args[5]) /\ args[5].n >= 0
    THEN Some(<<>>)
    ELSE None

\* the closures of Domain::add_builtin_methods
verify_g_method(state, args) ==
    IF Len(args) >= 5 /\ IsStr(args[1]) /\ IsStr(args[2]) /\ IsStr(args[3])
       /\ IsI64(args[5]) /\ args[5].n >= 0
       /\ satisfies_unigoal(state, args[2].s, args[3].s, args[4])
    THEN Some(<<>>)
    ELSE None

verify_mg_method(state, args) ==
    IF Len(args) >= 3 /\ IsStr(args[1]) /\ IsI64(args[3]) /\ args[3].n >= 0
    THEN Some(<<>>)
    ELSE None

CallTaskMethod(method_fn, state, args) ==
    CASE method_fn = "verify_g_method" -> verify_g_method(state, args)
      [] method_fn = "verify_mg_method" -> verify_mg_method(state, args)
      [] method_fn = "m_err" ->
           Some(<<Action("putv", <<Num(0)>>), Action("getv", <<Num(1)>>)>>)
      [] method_fn = "m0" ->
           Some(<<Action("putv", <<Num(0)>>), Action("getv", <<Num(0)>>)>>)
      [] method_fn = "m1" ->
           Some(<<Action("putv", <<Num(1)>>), Action("getv", <<Num(1)>>)>>)
      [] method_fn = "m_need0" -> Some(<<Action("getv", <<Num(0)>>)>>)
      [] method_fn = "m_need1" -> Some(<<Action("getv", <<Num(1)>>)>>)
      [] method_fn = "m_transport" ->
           IF Len(args) >= 2 /\ IsStr(args[1]) /\ IsStr(args[2])
           THEN IF has_var_arg(state, "loc", args[1].s)
                   /\ get_var(state, "loc", args[1].s) # Some(args[2])
                THEN Some(<<Action("move", <<args[1], args[2]>>)>>)
                ELSE Some(<<>>)
           ELSE None
      [] method_fn = "m_fly" -> Some(<<Task("fly", <<>>)>>)
      [] method_fn = "m_loop" -> Some(<<Task("loop", <<>>)>>)
      [] OTHER -> None

CallUnigoalMethod(method_fn, state, arg, value) ==
    CASE method_fn = "u_noop" -> Some(<<>>)
      [] method_fn = "u_move" -> Some(<<Action("move", <<Str(arg), value>>)>>)
      [] OTHER -> None

\* the multigoal method of the crate documentation (lib.rs)
CallMultigoalMethod(method_fn, state, mgoal) ==
    CASE method_fn = "mg_doc" ->
           IF get_goal(mgoal, "loc", "alice").some
           THEN Some(<<Action("move", <<Str("alice"), get_goal(mgoal, "loc", "alice").val>>)>>)
           ELSE None
      [] OTHER -> None

(***************************************************************************)
(* Planner (planning/mod.rs) and the results of find_plan.                 *)
(***************************************************************************)
PlannerNew(domain) ==
    [domain |-> domain, verbose_level |-> 1, strategy |-> "Iterative",
     verify_goals |-> TRUE, multigoals |-> <<>>]

\* Result<Planner>: ok with the new planner, or an error for a level outside 0..3
with_verbose_level(p, level) ==
    IF level \in 0..3
    THEN [ok |-> TRUE, val |-> [p EXCEPT !.verbose_level = level]]
    ELSE [ok |-> FALSE, val |-> p]

\* mutant: the process-wide level is consulted, not the planner's
is_verbose_global(p, level) == globals.VERBOSE_LEVEL >= level

is_verbose(p, level) == p.verbose_level >= level

\* mutant: the new planner is made afresh and only given the strategy
with_strategy_fromDefaults(p, strategy) == [PlannerNew(p.domain) EXCEPT !.strategy = strategy]

with_strategy(p, strategy) == [p EXCEPT !.strategy = strategy]

with_goal_verification(p, verify) == [p EXCEPT !.verify_goals = verify]

\* format!("goal_{}", multigoal.name)
GoalId(multigoal) == "goal_" \o multigoal.name

\* Planner::with_multigoal: takes the receiver by value
with_multigoal(p, multigoal) ==
    [p EXCEPT !.multigoals = MapPut(@, GoalId(multigoal), multigoal)]

(***************************************************************************)
(* PlannerBuilder (planning/mod.rs) and the domain its build() puts in the *)
(* place of a domain named blocks_htn.                                     *)
(***************************************************************************)
\* Domain::copy(Some(new_name)); name is a public field
DomainCopy(domain, new_name) == [domain EXCEPT !.name = new_name]

\* examples/blocks_htn_example.rs; the multigoals are captured by the method
\* registered for achieve
create_blocks_htn_domain_with_multigoals(multigoals) ==
    LET d0 == declare_action(declare_action(declare_action(declare_action(
                  DomainNew("blocks_htn"), "pickup", "pickup"), "unstack", "unstack"),
                  "putdown", "putdown"), "stack", "stack")
        d1 == declare_task_method(d0, "achieve", "m_moveblocks_htn")
        d2 == declare_task_method(declare_task_method(d1, "take", "m_take"),
                                  "put", "m_put")
    IN  declare_task_method(declare_task_method(d2, "take", "m_take"), "put", "m_put")

PlannerBuilderNew ==
    [domain |-> None, verbose_level |-> 1, strategy |-> "Iterative",
     verify_goals |-> TRUE, multigoals |-> <<>>]

PlannerBuilder_with_domain(b, domain) == [b EXCEPT !.domain = Some(domain)]

\* Result<PlannerBuilder>
PlannerBuilder_with_verbose_level(b, level) ==
    IF level \in 0..3
    THEN [ok |-> TRUE, val |-> [b EXCEPT !.verbose_level = level]]
    ELSE [ok |-> FALSE, val |-> b]

PlannerBuilder_with_strategy(b, strategy) == [b EXCEPT !.strategy = strategy]

PlannerBuilder_with_goal_verification(b, verify) == [b EXCEPT !.verify_goals = verify]

PlannerBuilder_with_multigoal(b, multigoal) ==
    [b EXCEPT !.multigoals = MapPut(@, GoalId(multigoal), multigoal)]

\* the domain build() gives the planner, for a builder that has one
BuildDomain(b) ==
    IF b.domain.val.name = "blocks_htn" /\ DOMAIN b.multigoals # {}
    THEN create_blocks_htn_domain_with_multigoals(b.multigoals)
    ELSE b.domain.val

\* mutant: a builder without a domain builds a planner for an empty domain
PlannerBuilder_build_defaultDomain(b) ==
    [ok |-> TRUE,
     val |-> [domain |-> IF b.domain.some THEN BuildDomain(b) ELSE DomainNew("default"),
              verbose_level |-> b.verbose_level, strategy |-> b.strategy,
              verify_goals |-> b.verify_goals, multigoals |-> b.multigoals]]

\* Result<Planner>: no planner without a domain
PlannerBuilder_build(b) ==
    IF ~b.domain.some
    THEN [ok |-> FALSE, val |-> PlannerNew(DomainNew(""))]
    ELSE [ok |-> TRUE,
          val |-> [domain |-> BuildDomain(b), verbose_level |-> b.verbose_level,
                   strategy |-> b.strategy, verify_goals |-> b.verify_goals,
                   multigoals |-> b.multigoals]]

(***************************************************************************)
(* The process-wide settings: VERBOSE_LEVEL and PLANNING_CONTEXT           *)
(* (planning/mod.rs), CURRENT_STRATEGY (planning/strategy.rs).             *)
(***************************************************************************)
GlobalsNew == [VERBOSE_LEVEL |-> 1, PLANNING_CONTEXT |-> None, CURRENT_STRATEGY |-> None]

\* Result<()>, and the settings after the call
set_verbose_level(g, level) ==
    IF level \in 0..3
    THEN [ok |-> TRUE, val |-> [g EXCEPT !.VERBOSE_LEVEL = level]]
    ELSE [ok |-> FALSE, val |-> g]

get_verbose_level(g) == g.VERBOSE_LEVEL

set_planning_strategy(g, strategy) == [g EXCEPT !.CURRENT_STRATEGY = Some(strategy)]

PlanningContextNew(domain) ==
    [domain |-> domain, verify_goals |-> TRUE, strategy |-> "Iterative"]

set_planning_context(g, context) == [g EXCEPT !.PLANNING_CONTEXT = Some(context)]

\* mutant: a found plan is reported as no plan
OkSome_asNone(plan) == [kind |-> "none", plan |-> <<>>]

\* Result<Option<Plan>>: Ok(Some(plan)), Ok(None), Err(_)
OkSome(plan) == [kind |-> "plan", plan |-> plan]
OkNone == [kind |-> "none", plan |-> <<>>]
Err == [kind |-> "err", plan |-> <<>>]
\* no result yet; and the result of a call that does not return within MaxDepth
Pending == [kind |-> "pending", plan |-> <<>>]
Diverged == [kind |-> "diverged", plan |-> <<>>]

(***************************************************************************)
(* Planner::find_plan_iterative (planning/planner_instance.rs): what one   *)
(* iteration of the loop pushes for the frame it popped, in push order.    *)
(***************************************************************************)
PlanningFrame(state, todo_list, plan, depth) ==
    [state |-> state, todo_list |-> todo_list, plan |-> plan, depth |-> depth]

\* mutant: the methods are pushed in registration order
MethodPushOrder_forward(methods) == methods

\* mutant: the first two methods change places on the stack
MethodPushOrder_secondOnTop(methods) ==
    LET r == Rev(methods)
        n == Len(r)
    IN  IF n < 2 THEN r
        ELSE [i \in 1..n |-> IF i = n THEN r[n - 1] ELSE IF i = n - 1 THEN r[n] ELSE r[i]]

\* methods.iter().rev()
MethodPushOrder(methods) == Rev(methods)

\* mutant: the new frame keeps the state the action was applied to
ExpandAction_staleState(p, frame) ==
    LET current_item == frame.todo_list[1]
        remaining_todo == Tail(frame.todo_list)
        action_fn == get_action(p.domain, current_item.name)
        new_state == IF action_fn.some
                     THEN CallAction(action_fn.val, StateCopy(frame.state), current_item.args)
                     ELSE None
    IN  IF new_state.some
        THEN <<PlanningFrame(frame.state, remaining_todo,
                             Append(frame.plan, current_item), frame.depth + 1)>>
        ELSE <<>>

ExpandAction(p, frame) ==
    LET current_item == frame.todo_list[1]
        remaining_todo == Tail(frame.todo_list)
        action_fn == get_action(p.domain, current_item.name)
        new_state == IF action_fn.some
                     THEN CallAction(action_fn.val, StateCopy(frame.state), current_item.args)
                     ELSE None
    IN  IF new_state.some
        THEN <<PlanningFrame(new_state.val, remaining_todo,
                             Append(frame.plan, current_item), frame.depth + 1)>>
        ELSE <<>>

\* mutant: only the first applicable method gets a frame (no alternative is kept)
ExpandTask_firstOnly(p, frame) ==
    LET current_item == frame.todo_list[1]
        remaining_todo == Tail(frame.todo_list)
        methods == get_task_methods(p.domain, current_item.name)
        Applicable(m) == CallTaskMethod(m, frame.state, current_item.args).some
        pushed == IF methods.some THEN SelectSeq(methods.val, Applicable) ELSE <<>>
    IN  [i \in 1..(IF pushed = <<>> THEN 0 ELSE 1) |->
            PlanningFrame(StateCopy(frame.state),
                          CallTaskMethod(pushed[i], frame.state, current_item.args).val
                              \o remaining_todo,
                          frame.plan, frame.depth + 1)]

\* mutant: the expanded task is recorded in the plan
ExpandTask_recordsTask(p, frame) ==
    LET current_item == frame.todo_list[1]
        remaining_todo == Tail(frame.todo_list)
        methods == get_task_methods(p.domain, current_item.name)
        Applicable(m) == CallTaskMethod(m, frame.state, current_item.args).some
        pushed == IF methods.some
                  THEN SelectSeq(MethodPushOrder(methods.val), Applicable)
                  ELSE <<>>
    IN  [i \in 1..Len(pushed) |->
            PlanningFrame(StateCopy(frame.state),
                          CallTaskMethod(pushed[i], frame.state, current_item.args).val
                              \o remaining_todo,
                          Append(frame.plan, current_item), frame.depth + 1)]

\* mutant: an alternative does not start from a copy of the frame's state but
\* from the state the alternative tried before it left after its leading action
ExpandTask_sharedState(p, frame) ==
    LET current_item == frame.todo_list[1]
        remaining_todo == Tail(frame.todo_list)
        methods == get_task_methods(p.domain, current_item.name)
        Applicable(m) == CallTaskMethod(m, frame.state, current_item.args).some
        pushed == IF methods.some
                  THEN SelectSeq(MethodPushOrder(methods.val), Applicable)
                  ELSE <<>>
        Subtasks(i) == CallTaskMethod(pushed[i], frame.state, current_item.args).val
        LeftBy(i) ==
            LET sub == Subtasks(i)
                action_fn == IF sub # <<>> /\ sub[1].kind = "Action"
                             THEN get_action(p.domain, sub[1].name)
                             ELSE None
                new_state == IF action_fn.some
                             THEN CallAction(action_fn.val, StateCopy(frame.state),
                                             sub[1].args)
                             ELSE None
            IN  IF new_state.some THEN new_state.val ELSE StateCopy(frame.state)
    IN  [i \in 1..Len(pushed) |->
            PlanningFrame(IF i = Len(pushed) THEN StateCopy(frame.state)
                          ELSE LeftBy(i + 1),
                          Subtasks(i) \o remaining_todo,
                          frame.plan, frame.depth + 1)]

\* mutant: the subtasks of a method go behind the remaining todo list
ExpandTask_appendsSubtasks(p, frame) ==
    LET current_item == frame.todo_list[1]
        remaining_todo == Tail(frame.todo_list)
        methods == get_task_methods(p.domain, current_item.name)
        Applicable(m) == CallTaskMethod(m, frame.state, current_item.args).some
        pushed == IF methods.some
                  THEN SelectSeq(MethodPushOrder(methods.val), Applicable)
                  ELSE <<>>
    IN  [i \in 1..Len(pushed) |->
            PlanningFrame(StateCopy(frame.state),
                          remaining_todo
                              \o CallTaskMethod(pushed[i], frame.state, current_item.args).val,
                          frame.plan, frame.depth + 1)]

\* mutant: every applicable method gets two frames
ExpandTask_pushesTwice(p, frame) ==
    LET current_item == frame.todo_list[1]
        remaining_todo == Tail(frame.todo_list)
        methods == get_task_methods(p.domain, current_item.name)
        Applicable(m) == CallTaskMethod(m, frame.state, current_item.args).some
        pushed == IF methods.some
                  THEN SelectSeq(MethodPushOrder(methods.val), Applicable)
                  ELSE <<>>
    IN  [i \in 1..(2 * Len(pushed)) |->
            PlanningFrame(StateCopy(frame.state),
                          CallTaskMethod(pushed[(i + 1) \div 2], frame.state,
                                         current_item.args).val
                              \o remaining_todo,
                          frame.plan, frame.depth + 1)]

ExpandTask(p, frame) ==
    LET current_item == frame.todo_list[1]
        remaining_todo == Tail(frame.todo_list)
        methods == get_task_methods(p.domain, current_item.name)
        Applicable(m) == CallTaskMethod(m, frame.state, current_item.args).some
        pushed == IF methods.some
                  THEN SelectSeq(MethodPushOrder(methods.val), Applicable)
                  ELSE <<>>
    IN  [i \in 1..Len(pushed) |->
            PlanningFrame(StateCopy(frame.state),
                          CallTaskMethod(pushed[i], frame.state, current_item.args).val
                              \o remaining_todo,
                          frame.plan, frame.depth + 1)]

\* mutant: the unigoal methods are tried whether or not the state satisfies the goal
ExpandUnigoal_alwaysMethods(p, frame) ==
    LET current_item == frame.todo_list[1]
        remaining_todo == Tail(frame.todo_list)
        methods == get_unigoal_methods(p.domain, current_item.name)
        Applicable(m) ==
            CallUnigoalMethod(m, frame.state, current_item.arg, current_item.value).some
        pushed == IF methods.some
                  THEN SelectSeq(MethodPushOrder(methods.val), Applicable)
                  ELSE <<>>
    IN  [i \in 1..Len(pushed) |->
            PlanningFrame(StateCopy(frame.state),
                          CallUnigoalMethod(pushed[i], frame.state, current_item.arg,
                                            current_item.value).val
                              \o remaining_todo,
                          frame.plan, frame.depth + 1)]

ExpandUnigoal(p, frame) ==
    LET current_item == frame.todo_list[1]
        remaining_todo == Tail(frame.todo_list)
        methods == get_unigoal_methods(p.domain, current_item.name)
        Applicable(m) ==
            CallUnigoalMethod(m, frame.state, current_item.arg, current_item.value).some
        pushed == IF methods.some
                  THEN SelectSeq(MethodPushOrder(methods.val), Applicable)
                  ELSE <<>>
    IN  IF satisfies_unigoal(frame.state, current_item.name, current_item.arg,
                             current_item.value)
        THEN <<PlanningFrame(frame.state, remaining_todo, frame.plan, frame.depth)>>
        ELSE [i \in 1..Len(pushed) |->
                PlanningFrame(StateCopy(frame.state),
                              CallUnigoalMethod(pushed[i], frame.state, current_item.arg,
                                                current_item.value).val
                                  \o remaining_todo,
                              frame.plan, frame.depth + 1)]

UnigoalItems(mg) ==
    LET u == to_unigoals(mg) IN [i \in 1..Len(u) |-> Unigoal(u[i][1], u[i][2], u[i][3])]

\* mutant: the multigoal is expanded into its unigoals whether or not it is satisfied
ExpandMultigoal_alwaysExpands(p, frame) ==
    <<PlanningFrame(frame.state,
                    UnigoalItems(frame.todo_list[1].mg) \o Tail(frame.todo_list),
                    frame.plan, frame.depth)>>

ExpandMultigoal(p, frame) ==
    LET current_item == frame.todo_list[1]
        remaining_todo == Tail(frame.todo_list)
    IN  IF is_satisfied_by(current_item.mg, frame.state)
        THEN <<PlanningFrame(frame.state, remaining_todo, frame.plan, frame.depth)>>
        ELSE <<PlanningFrame(frame.state, UnigoalItems(current_item.mg) \o remaining_todo,
                             frame.plan, frame.depth)>>

ExpandFrame(p, frame) ==
    CASE frame.todo_list[1].kind = "Action" -> ExpandAction(p, frame)
      [] frame.todo_list[1].kind = "Task" -> ExpandTask(p, frame)
      [] frame.todo_list[1].kind = "Unigoal" -> ExpandUnigoal(p, frame)
      [] frame.todo_list[1].kind = "Multigoal" -> ExpandMultigoal(p, frame)

(***************************************************************************)
(* Planner::find_plan_recursive.  A call that would go deeper than         *)
(* MaxDepth stands for one that does not return: Diverged, which every     *)
(* caller passes on.                                                       *)
(***************************************************************************)
RECURSIVE FindPlanRecursive(_, _, _, _)
RECURSIVE RecTaskMethods(_, _, _, _, _, _)
RECURSIVE RecUnigoalMethods(_, _, _, _, _, _)

RecTaskMethods(p, state, todo_list, depth, methods, i) ==
    IF i > Len(methods) THEN OkNone
    ELSE LET subtasks == CallTaskMethod(methods[i], state, todo_list[1].args)
             sub == FindPlanRecursive(p, StateCopy(state),
                                      subtasks.val \o Tail(todo_list), depth + 1)
         IN  IF subtasks.some /\ sub.kind # "none"
             THEN sub
             ELSE RecTaskMethods(p, state, todo_list, depth, methods, i + 1)

RecUnigoalMethods(p, state, todo_list, depth, methods, i) ==
    IF i > Len(methods) THEN OkNone
    ELSE LET subtasks == CallUnigoalMethod(methods[i], state, todo_list[1].arg,
                                           todo_list[1].value)
             sub == FindPlanRecursive(p, StateCopy(state),
                                      subtasks.val \o Tail(todo_list), depth + 1)
         IN  IF subtasks.some /\ sub.kind # "none"
             THEN sub
             ELSE RecUnigoalMethods(p, state, todo_list, depth, methods, i + 1)

FindPlanRecursive(p, state, todo_list, depth) ==
    IF todo_list = <<>> THEN OkSome(<<>>)
    ELSE IF depth >= MaxDepth THEN Diverged
    ELSE
    LET current_item == todo_list[1]
        remaining_todo == Tail(todo_list)
    IN  CASE current_item.kind = "Action" ->
               LET action_fn == get_action(p.domain, current_item.name)
                   new_state == IF action_fn.some
                                THEN CallAction(action_fn.val, StateCopy(state),
                                                current_item.args)
                                ELSE None
                   sub == FindPlanRecursive(p, new_state.val, remaining_todo, depth + 1)
               IN  IF ~new_state.some THEN OkNone
                   ELSE IF sub.kind = "plan" THEN OkSome(<<current_item>> \o sub.plan)
                   ELSE sub
          [] current_item.kind = "Task" ->
               LET methods == get_task_methods(p.domain, current_item.name)
               IN  IF methods.some
                   THEN RecTaskMethods(p, state, todo_list, depth, methods.val, 1)
                   ELSE OkNone
          [] current_item.kind = "Unigoal" ->
               LET methods == get_unigoal_methods(p.domain, current_item.name)
               IN  IF satisfies_unigoal(state, current_item.name, current_item.arg,
                                        current_item.value)
                   THEN FindPlanRecursive(p, state, remaining_todo, depth)
                   ELSE IF methods.some
                   THEN RecUnigoalMethods(p, state, todo_list, depth, methods.val, 1)
                   ELSE OkNone
          [] current_item.kind = "Multigoal" ->
               IF is_satisfied_by(current_item.mg, state)
               THEN FindPlanRecursive(p, state, remaining_todo, depth)
               ELSE FindPlanRecursive(p, state,
                                      UnigoalItems(current_item.mg) \o remaining_todo,
                                      depth)

(***************************************************************************)
(* The domains, states and todo items the harness draws its inputs from.   *)
(***************************************************************************)
\* create_backtracking_htn_domain
BacktrackingDomain ==
    LET d0 == declare_action(declare_action(DomainNew("backtracking_htn"),
                                            "putv", "putv"), "getv", "getv")
        d1 == declare_task_method(declare_task_method(declare_task_method(d0,
                  "put_it", "m_err"), "put_it", "m0"), "put_it", "m1")
        d2 == declare_task_method(declare_task_method(d1,
                  "need0", "m_need0"), "need1", "m_need1")
        d3 == declare_task_method(declare_task_method(d2,
                  "need01", "m_need0"), "need01", "m_need1")
    IN  declare_task_method(declare_task_method(d3,
                  "need10", "m_need1"), "need10", "m_need0")

\* the backtracking domain extended: unigoal methods for loc (a faulty one first),
\* a task whose first method yields an unknown task, a task that yields itself,
\* and task methods under the name of the action putv
MixedDomain ==
    LET d0 == declare_action(BacktrackingDomain, "move", "move")
        d1 == declare_unigoal_methods(d0, "loc", <<"u_noop", "u_move">>)
        d2 == declare_task_methods(d1, "go", <<"m_fly", "m_transport">>)
        d3 == declare_task_method(d2, "loop", "m_loop")
    IN  declare_task_method(d3, "putv", "m_need1")

\* the domain of the crate documentation: one action, one multigoal method
GoalDomain ==
    declare_multigoal_method(declare_action(DomainNew("goal_domain"), "move", "move"),
                             "mg_doc")

\* put_it with its methods registered in the opposite order, sound unigoal
\* methods for loc, and a multigoal method
ReversedDomain ==
    LET d0 == declare_action(declare_action(declare_action(DomainNew("reversed"),
                  "putv", "putv"), "getv", "getv"), "move", "move")
        d1 == declare_task_methods(d0, "put_it", <<"m1", "m0", "m_err">>)
        d2 == declare_task_method(d1, "need0", "m_need0")
        d3 == declare_unigoal_method(d2, "loc", "u_move")
        d4 == declare_task_methods(d3, "go", <<"m_transport", "m_fly">>)
    IN  declare_multigoal_method(d4, "mg_doc")

Domains == {BacktrackingDomain, MixedDomain, GoalDomain, ReversedDomain}

StateA ==
    set_var(set_var(StateNew, "flag", "value", Num(-1)), "loc", "alice", Str("home"))

StateB ==
    set_var(set_var(set_var(StateNew, "flag", "value", Num(1)),
                    "loc", "alice", Str("park")), "loc", "bob", Str("park"))

States0 == {StateA, StateB}

Goal1(k) ==
    set_goal(set_goal(WithRandomState(MultigoalNew("goal1"), k),
                      "loc", "alice", Str("park")),
             "loc", "bob", Str("park"))

Items ==
    { Task("put_it", <<>>), Task("need0", <<>>), Task("fly", <<>>),
      Task("putv", <<Num(0)>>), Action("getv", <<Num(1)>>),
      Unigoal("loc", "alice", Str("park")),
      MultigoalItem(Goal1("k0")), MultigoalItem(Goal1("k1")),
      Task("go", <<Str("alice"), Str("park")>>), Task("loop", <<>>) }

Todos == UNION {[1..n -> Items] : n \in 0..MaxTodo}

(***************************************************************************)
(* The harness: find_plan with the iterative strategy, then with the       *)
(* recursive strategy, on the same state and todo list.                    *)
(***************************************************************************)
\* run_lazy_lookahead: its local variables (state, todo_list, max_tries, tries,
\* the plan being executed and the position in it), where it stands, what it
\* returned, and a record of what it did: the state it was given, the number of
\* find_plan calls, the commands it ran (with the state before and after), and
\* for each find_plan call the state it got, what it returned and how many
\* commands had run by then
Lookahead(state, todo_list, max_tries) ==
    [pc |-> "loop", state |-> state, todo_list |-> todo_list, max_tries |-> max_tries,
     tries |-> 0, plan |-> <<>>, next |-> 1,
     result |-> [kind |-> "pending", state |-> StateNew],
     input |-> state, calls |-> 0, executed |-> <<>>, planned |-> <<>>]

\* run_lazy_lookahead is not called
NoLookahead == [Lookahead(StateNew, <<>>, 0) EXCEPT !.pc = "idle"]

\* a direct call of a library function: which, what it returned, and what
\* find_plan made of it under either strategy
NoProbe == [op |-> "none", ret |-> None, found |-> <<>>]

\* a Domain under construction, with the method declarations made so far
Building(domain) == [domain |-> domain, declared |-> <<>>]

NotBuilding == Building(DomainNew(""))

\* what a caller holds: a builder, the planners built or derived so far (a
\* planner moved into with_multigoal is no longer alive), the outcome of the
\* last configuration call, and how many calls were made
NoArg == [level |-> 0, strategy |-> "", verify |-> FALSE, name |-> ""]

NoCall == [op |-> "none", ok |-> TRUE, of |-> 0, new |-> 0, arg |-> NoArg]

Caller(builder) == [builder |-> builder, planners |-> <<>>, last |-> NoCall, ops |-> 0]

NoCaller == Caller(PlannerBuilderNew)

Init ==
    /\ rll = NoLookahead
    /\ building = NotBuilding
    /\ probe = NoProbe
    /\ caller = NoCaller
    /\ globals = GlobalsNew
    /\ \E d \in Domains, v \in BOOLEAN :
           planner = with_goal_verification(PlannerNew(d), v)
    /\ state0 \in States0
    /\ todo0 \in Todos
    /\ todo1 \in {t \in Todos : TodoEq(t, todo0)}
    /\ pc = "start"
    /\ stack = <<>>
    /\ results = [Iterative |-> Pending, Recursive |-> Pending, Repeated |-> Pending]

Top(s) == s[Len(s)]
\* mutant: the popped frame stays on the stack
Pop_keepsFrame(s) == s

\* stack.pop_back(): what is left of the stack
Pop(s) == SubSeq(s, 1, Len(s) - 1)

\* find_plan with strategy Iterative: the first frame goes on the stack
CallIterative ==
    /\ pc = "start"
    /\ planner' = with_strategy(planner, "Iterative")
    /\ stack' = <<PlanningFrame(state0, todo0, <<>>, 0)>>
    /\ pc' = "iter"
    /\ UNCHANGED <<rll, state0, todo0, todo1, results, caller, globals, building, probe>>

\* an iteration that pops a frame with an empty todo list: return its plan
IterReturn ==
    /\ pc = "iter"
    /\ stack # <<>>
    /\ Top(stack).todo_list = <<>>
    /\ results' = [results EXCEPT !.Iterative = OkSome(Top(stack).plan)]
    /\ stack' = <<>>
    /\ pc' = "between"
    /\ UNCHANGED <<rll, planner, state0, todo0, todo1, caller, globals, building, probe>>

\* an iteration that pops a frame and pushes what its first item expands to
IterExpand ==
    /\ pc = "iter"
    /\ stack # <<>>
    /\ Top(stack).todo_list # <<>>
    /\ Top(stack).depth < MaxDepth
    /\ stack' = Pop(stack) \o ExpandFrame(planner, Top(stack))
    /\ UNCHANGED <<rll, planner, state0, todo0, todo1, pc, results, caller, globals, building, probe>>

\* the stack ran empty: no plan
IterExhausted ==
    /\ pc = "iter"
    /\ stack = <<>>
    /\ results' = [results EXCEPT !.Iterative = OkNone]
    /\ pc' = "between"
    /\ UNCHANGED <<rll, planner, state0, todo0, todo1, stack, caller, globals, building, probe>>

\* find_plan with strategy Recursive, when it returns
CallRecursive ==
    /\ pc = "between"
    /\ LET p == with_strategy(planner, "Recursive")
           r == FindPlanRecursive(p, state0, todo0, 0)
       IN  /\ r.kind # "diverged"
           /\ planner' = p
           /\ results' = [results EXCEPT !.Recursive = r]
    /\ pc' = "done"
    /\ UNCHANGED <<rll, state0, todo0, todo1, stack, caller, globals, building, probe>>

\* find_plan once more with the same planner, on an equal state and an equal
\* todo list that was built on its own
CallRepeated ==
    /\ pc = "done"
    /\ LET r == FindPlanRecursive(planner, state0, todo1, 0)
       IN  /\ r.kind # "diverged"
           /\ results' = [results EXCEPT !.Repeated = r]
    /\ pc' = "repeated"
    /\ UNCHANGED <<rll, planner, state0, todo0, todo1, stack, caller, globals, building, probe>>

Next ==
    CallIterative \/ IterReturn \/ IterExpand \/ IterExhausted \/ CallRecursive
        \/ CallRepeated

Spec == Init /\ [][Next]_vars

(***************************************************************************)
(* Properties.                                                             *)
(***************************************************************************)
Strategies == {"Iterative", "Recursive"}

AllActions(plan) == \A k \in 1..Len(plan) : plan[k].kind = "Action"

\* the plan applied left to right, each action to a copy of the current state
RECURSIVE ExecPlan(_, _, _)
ExecPlan(domain, state, plan) ==
    IF plan = <<>> THEN Some(state)
    ELSE LET action_fn == get_action(domain, plan[1].name)
             next == IF plan[1].kind = "Action" /\ action_fn.some
                     THEN CallAction(action_fn.val, StateCopy(state), plan[1].args)
                     ELSE None
         IN  IF next.some THEN ExecPlan(domain, next.val, Tail(plan)) ELSE None

\* the first result of a sequence of branch results that is a plan
RECURSIVE FirstPlan(_, _)
FirstPlan(branches, i) ==
    IF i > Len(branches) THEN OkNone
    ELSE IF branches[i].kind = "plan" THEN branches[i]
    ELSE FirstPlan(branches, i + 1)

HeadIs(kind) == todo0 # <<>> /\ todo0[1].kind = kind

\* what the search finds below one task method of the head of the todo list
TaskBranch(m) ==
    LET sub == CallTaskMethod(m, state0, todo0[1].args)
    IN  IF sub.some
        THEN FindPlanRecursive(planner, StateCopy(state0), sub.val \o Tail(todo0), 1)
        ELSE OkNone

HeadTaskMethods ==
    IF HeadIs("Task") /\ has_task_methods(planner.domain, todo0[1].name)
    THEN planner.domain.task_methods[todo0[1].name]
    ELSE <<>>

TaskBranches == [i \in 1..Len(HeadTaskMethods) |-> TaskBranch(HeadTaskMethods[i])]

\* C1: when both calls have returned, the iterative and the recursive strategy
\* have returned the same result: both no plan, or the same sequence of actions.
StrategyEquivalence ==
    pc = "done" => results.Iterative = results.Recursive

PutGetGet ==
    <<Action("putv", <<Num(0)>>), Action("getv", <<Num(0)>>), Action("getv", <<Num(0)>>)>>

\* both strategies backtracked over the first method of put_it to the same plan
StrategyEquivalenceWitness ==
    /\ pc = "done"
    /\ todo0 = <<Task("put_it", <<>>), Task("need0", <<>>)>>
    /\ results.Iterative = OkSome(PutGetGet)
    /\ results.Recursive = OkSome(PutGetGet)

\* C2: when the head of the todo list is a task with several methods, the result
\* of either strategy is the plan found below the first method, in registration
\* order, below which a plan is found, and no plan when there is none: a later
\* method's plan is returned only when every branch under the earlier ones fails.
MethodPreference ==
    (pc = "done" /\ Len(HeadTaskMethods) >= 2)
        => \A s \in Strategies : results[s] = FirstPlan(TaskBranches, 1)

\* two methods of the head task lead to different plans; the earlier one's is returned
MethodPreferenceWitness ==
    /\ pc = "done"
    /\ \E i, j \in 1..Len(HeadTaskMethods) :
          /\ i < j
          /\ TaskBranches[i].kind = "plan"
          /\ TaskBranches[j].kind = "plan"
          /\ TaskBranches[i] # TaskBranches[j]
          /\ results.Iterative = TaskBranches[i]
          /\ results.Recursive = TaskBranches[i]

\* C6: the partial plan of every frame on the stack of the iterative shape holds
\* only Action items, and so does every plan either strategy returns.
PlanShape ==
    /\ \A i \in 1..Len(stack) : AllActions(stack[i].plan)
    /\ \A s \in Strategies : AllActions(results[s].plan)

\* a frame with a non-empty plan whose todo list still holds an item that is no Action
PlanShapeWitness ==
    /\ pc = "iter"
    /\ stack # <<>>
    /\ Top(stack).plan # <<>>
    /\ \E k \in 1..Len(Top(stack).todo_list) : Top(stack).todo_list[k].kind # "Action"
    /\ \E k \in 1..Len(todo0) : todo0[k].kind \in {"Unigoal", "Multigoal"}

\* C7: a plan returned by either strategy can be executed from the initial state:
\* applied left to right, no action callable returns failure.
PlanExecutable ==
    pc = "done"
        => \A s \in Strategies :
               results[s].kind = "plan"
                   => ExecPlan(planner.domain, state0, results[s].plan).some

\* a returned plan of several actions with an action that fails on the initial state
PlanExecutableWitness ==
    /\ pc = "done"
    /\ results.Iterative.kind = "plan"
    /\ Len(results.Iterative.plan) >= 2
    /\ \E k \in 1..Len(results.Iterative.plan) :
          ~CallAction(planner.domain.actions[results.Iterative.plan[k].name],
                      state0, results.Iterative.plan[k].args).some

\* the head of the todo list is an Unigoal the initial state does not satisfy
HeadUnsatisfiedUnigoal ==
    /\ HeadIs("Unigoal")
    /\ ~satisfies_unigoal(state0, todo0[1].name, todo0[1].arg, todo0[1].value)

HeadUnigoalMethods ==
    IF HeadIs("Unigoal") /\ has_unigoal_methods(planner.domain, todo0[1].name)
    THEN planner.domain.unigoal_methods[todo0[1].name]
    ELSE <<>>

\* a unigoal method that returns an empty subtask list for the head of the todo list
Faulty(m) ==
    CallUnigoalMethod(m, state0, todo0[1].arg, todo0[1].value) = Some(<<>>)

\* what the search finds below one unigoal method of the head of the todo list
UnigoalBranch(m) ==
    LET sub == CallUnigoalMethod(m, state0, todo0[1].arg, todo0[1].value)
    IN  IF sub.some
        THEN FindPlanRecursive(planner, StateCopy(state0), sub.val \o Tail(todo0), 1)
        ELSE OkNone

\* the branches of the unigoal methods, those of the faulty methods rejected
VerifiedUnigoalBranches ==
    [i \in 1..Len(HeadUnigoalMethods) |->
        IF Faulty(HeadUnigoalMethods[i]) THEN OkNone
        ELSE UnigoalBranch(HeadUnigoalMethods[i])]

\* C3: with verify_goals on, a unigoal method that returns an empty subtask list
\* for an Unigoal the state does not satisfy is rejected and the search goes on
\* with the next unigoal method (no plan if none remains); with verify_goals off
\* the branch of that method is accepted like any other.
VerificationCatchesFaultyMethods ==
    (/\ pc = "done"
     /\ HeadUnsatisfiedUnigoal
     /\ \E i \in 1..Len(HeadUnigoalMethods) : Faulty(HeadUnigoalMethods[i]))
        => \A s \in Strategies :
               results[s] =
                   IF planner.verify_goals
                   THEN FirstPlan(VerifiedUnigoalBranches, 1)
                   ELSE FirstPlan([i \in 1..Len(HeadUnigoalMethods) |->
                                      UnigoalBranch(HeadUnigoalMethods[i])], 1)

\* an item find_plan has nothing registered for
UnknownItem(domain, state, item) ==
    IF item.kind = "Task"
    THEN ~has_action(domain, item.name) /\ ~has_task_methods(domain, item.name)
    ELSE /\ item.kind = "Unigoal"
         /\ ~satisfies_unigoal(state, item.name, item.arg, item.value)
         /\ ~has_unigoal_methods(domain, item.name)

\* C4: when the head of the todo list is a Task that names neither an action nor
\* a set of task methods, or an unsatisfied Unigoal whose variable has no unigoal
\* methods, find_plan returns an error, which is not the no-plan result.
UnknownItemIsError ==
    (pc = "done" /\ todo0 # <<>> /\ UnknownItem(planner.domain, state0, todo0[1]))
        => \A s \in Strategies : results[s] = Err

\* C5: when the first method of the head task expands to a todo list that starts
\* with a Task that has no action and no task method, find_plan ends with an
\* error and does not try the second method, even if that one leads to a plan.
UnknownItemNotBacktrackable ==
    (/\ pc = "done"
     /\ Len(HeadTaskMethods) >= 2
     /\ LET sub == CallTaskMethod(HeadTaskMethods[1], state0, todo0[1].args)
        IN  /\ sub.some
            /\ sub.val # <<>>
            /\ sub.val[1].kind = "Task"
            /\ UnknownItem(planner.domain, state0, sub.val[1])
     /\ TaskBranches[2].kind = "plan"
     /\ TaskBranches[2].plan # <<>>)
        => \A s \in Strategies : results[s] = Err

\* the state satisfies every Unigoal and every Multigoal of the todo list
SatisfiesGoals(state, todo_list) ==
    \A k \in 1..Len(todo_list) :
        /\ todo_list[k].kind = "Unigoal"
              => satisfies_unigoal(state, todo_list[k].name, todo_list[k].arg,
                                   todo_list[k].value)
        /\ todo_list[k].kind = "Multigoal" => is_satisfied_by(todo_list[k].mg, state)

\* C8: with goal verification on, the state reached by executing a returned plan
\* from the initial state satisfies every Unigoal and every Multigoal of the
\* original todo list.
GoalAchievement ==
    (pc = "done" /\ planner.verify_goals)
        => \A s \in Strategies :
               results[s].kind = "plan"
                   => LET final == ExecPlan(planner.domain, state0, results[s].plan)
                      IN  final.some /\ SatisfiesGoals(final.val, todo0)

\* the multigoal methods applicable to the head of a frame, as they would be pushed
MultigoalPushed(p, frame) ==
    LET Applicable(m) ==
            CallMultigoalMethod(m, frame.state, frame.todo_list[1].mg).some
    IN  SelectSeq(MethodPushOrder(get_multigoal_methods(p.domain)), Applicable)

IsPrefix(a, b) == Len(a) <= Len(b) /\ SubSeq(b, 1, Len(a)) = a

\* C9: when the domain declares a multigoal method, a step of the iterative
\* shape that expands an unsatisfied Multigoal replaces the frame by one frame
\* per applicable multigoal method, each starting with that method's subtasks;
\* it does not replace it by the frame of the multigoal's unigoals.
MultigoalMethodsOwnExpansion ==
    [][(/\ pc = "iter"
        /\ pc' = "iter"
        /\ stack # <<>>
        /\ Top(stack).todo_list # <<>>
        /\ Top(stack).todo_list[1].kind = "Multigoal"
        /\ ~is_satisfied_by(Top(stack).todo_list[1].mg, Top(stack).state)
        /\ get_multigoal_methods(planner.domain) # <<>>)
          => LET frame == Top(stack)
                 pushed == MultigoalPushed(planner, frame)
             IN  /\ Len(stack') = Len(stack) - 1 + Len(pushed)
                 /\ \A i \in 1..Len(pushed) :
                       IsPrefix(CallMultigoalMethod(pushed[i], frame.state,
                                                    frame.todo_list[1].mg).val,
                                stack'[Len(stack) - 1 + i].todo_list)]_vars

\* the result of the call when the head Task of the todo list is taken as an Action
HeadAsAction ==
    FindPlanRecursive(planner, state0,
                      <<Action(todo0[1].name, todo0[1].args)>> \o Tail(todo0), 0)

\* C10: a Task whose name is registered as an action is applied as that action,
\* also when the name has task methods: the result is the one of the todo list
\* with the Action in the Task's place.
TaskNamedAsActionIsApplied ==
    (/\ pc = "done"
     /\ HeadIs("Task")
     /\ has_action(planner.domain, todo0[1].name)
     /\ HeadAsAction.kind # "diverged")
        => \A s \in Strategies : results[s] = HeadAsAction

\* C11: two calls of find_plan with the same planner configuration and domain,
\* on equal states and equal todo lists, return equal results, also when the
\* todo list holds a Multigoal with several subjects under one variable that is
\* expanded into its unigoals.
Determinism ==
    pc = "repeated" => results.Repeated = results.Recursive

\* the unigoals of a multigoal in its insertion order of variables and subjects
InsertionOrderUnigoals(mg) ==
    LET Cells(i) == [j \in 1..Len(mg.variables[i].goal_map) |->
                        Unigoal(mg.variables[i].var, mg.variables[i].goal_map[j].arg,
                                mg.variables[i].goal_map[j].value)]
        RECURSIVE From(_)
        From(i) == IF i > Len(mg.variables) THEN <<>> ELSE Cells(i) \o From(i + 1)
    IN  From(1)

\* C12: a step of the iterative shape that expands an unsatisfied Multigoal into
\* its unigoals puts them on the todo list in the Multigoal's insertion order:
\* variables in insertion order, the subjects of a variable in insertion order.
FallbackKeepsInsertionOrder ==
    [][(/\ pc = "iter"
        /\ pc' = "iter"
        /\ stack # <<>>
        /\ Top(stack).todo_list # <<>>
        /\ Top(stack).todo_list[1].kind = "Multigoal"
        /\ ~is_satisfied_by(Top(stack).todo_list[1].mg, Top(stack).state))
          => /\ stack' # <<>>
             /\ Top(stack').todo_list =
                    InsertionOrderUnigoals(Top(stack).todo_list[1].mg)
                        \o Tail(Top(stack).todo_list)]_vars

\* C13: on the empty todo list either strategy returns the empty plan (a found
\* plan of length 0, not the no-plan result), whatever the state.
EmptyTodo ==
    (pc \in {"done", "repeated"} /\ todo0 = <<>>)
        => \A s \in Strategies : results[s].kind = "plan" /\ results[s].plan = <<>>

\* both calls have returned on the empty todo list, from a state with three cells
EmptyTodoWitness ==
    pc = "done" /\ todo0 = <<>> /\ state0 = StateB /\ results.Iterative.kind = "plan"

\* the stack of the iterative shape holds nothing but the first frame of the
\* call, or the frame left once its single item is dropped: same state, empty
\* plan, depth 0 (a frame made for a method or an action has depth 1)
OnlyDropsTheItem ==
    pc = "iter"
        => \/ stack = <<PlanningFrame(state0, todo0, <<>>, 0)>>
           \/ stack = <<PlanningFrame(state0, <<>>, <<>>, 0)>>

SatisfiedUnigoalTodo ==
    /\ Len(todo0) = 1
    /\ HeadIs("Unigoal")
    /\ satisfies_unigoal(state0, todo0[1].name, todo0[1].arg, todo0[1].value)

\* C14: when the state satisfies (v, x, d), find_plan on [Unigoal(v, x, d)]
\* returns the empty plan with either strategy, and the iterative shape only
\* drops the item: no frame of an unigoal method is made, whether or not the
\* domain declares unigoal methods for v.
SatisfiedUnigoal ==
    SatisfiedUnigoalTodo
        => /\ OnlyDropsTheItem
           /\ pc \in {"done", "repeated"}
                  => \A s \in Strategies : results[s] = OkSome(<<>>)

\* the call has returned the empty plan in a domain with no unigoal method for v
SatisfiedUnigoalWitness ==
    /\ pc = "done"
    /\ SatisfiedUnigoalTodo
    /\ ~has_unigoal_methods(planner.domain, todo0[1].name)
    /\ results.Iterative = OkSome(<<>>)
    /\ results.Recursive = OkSome(<<>>)

SatisfiedMultigoalTodo ==
    /\ Len(todo0) = 1
    /\ HeadIs("Multigoal")
    /\ is_satisfied_by(todo0[1].mg, state0)

\* C15: when the state satisfies every cell of mg, find_plan on [Multigoal(mg)]
\* returns the empty plan with either strategy, and the iterative shape only
\* drops the item: the multigoal is not expanded, no method or action is called.
SatisfiedMultigoal ==
    SatisfiedMultigoalTodo
        => /\ OnlyDropsTheItem
           /\ pc \in {"done", "repeated"}
                  => \A s \in Strategies : results[s] = OkSome(<<>>)

\* the call has returned the empty plan for a satisfied multigoal of two cells,
\* in a domain that has unigoal methods and a multigoal method
SatisfiedMultigoalWitness ==
    /\ pc = "done"
    /\ SatisfiedMultigoalTodo
    /\ Len(to_unigoals(todo0[1].mg)) = 2
    /\ has_unigoal_methods(planner.domain, "loc")
    /\ get_multigoal_methods(planner.domain) # <<>>
    /\ results.Iterative = OkSome(<<>>)
    /\ results.Recursive = OkSome(<<>>)

(***************************************************************************)
(* Planner::find_plan as one call, and Planner::run_lazy_lookahead.        *)
(***************************************************************************)
\* the loop of find_plan_iterative run until it returns
RECURSIVE IterLoop(_, _)
IterLoop(p, stk) ==
    IF stk = <<>> THEN OkNone
    ELSE IF Top(stk).todo_list = <<>> THEN OkSome(Top(stk).plan)
    ELSE IF Top(stk).depth >= MaxDepth THEN Diverged
    ELSE IterLoop(p, Pop(stk) \o ExpandFrame(p, Top(stk)))

FindPlanIterative(p, initial_state, initial_todo) ==
    IterLoop(p, <<PlanningFrame(initial_state, initial_todo, <<>>, 0)>>)

find_plan(p, state, todo_list) ==
    IF p.strategy = "Iterative"
    THEN FindPlanIterative(p, state, todo_list)
    ELSE FindPlanRecursive(p, state, todo_list, 0)

\* mutant: the search works on the caller's state itself, which is left as the
\* actions of the plan made it
CallFindPlan_onCallersState(p, state, todo_list) ==
    LET found == find_plan(p, state, todo_list)
    IN  [found |-> found,
         state |-> IF found.kind = "plan"
                   THEN ExecPlan(p.domain, state, found.plan).val
                   ELSE state]

\* self.find_plan(state.clone(), todo_list.clone()): what it returns, and the
\* caller's state after the call
CallFindPlan(p, state, todo_list) ==
    [found |-> find_plan(p, state, todo_list), state |-> state]

\* a command (or the action used in its place) run on state_copy: what it
\* returns, and state_copy as the call leaves it
CallCommand(cmd_fn, state_copy, args) ==
    LET moves == Len(args) >= 2 /\ IsStr(args[1]) /\ IsStr(args[2])
        moved(target) == set_var(state_copy, "loc", args[1].s, target)
        acted == CallAction(cmd_fn, state_copy, args)
    IN  CASE cmd_fn = "c_move" ->
               IF moves THEN [ret |-> Some(moved(args[2])), arg |-> moved(args[2])]
               ELSE [ret |-> None, arg |-> state_copy]
          [] cmd_fn = "c_fail" -> [ret |-> None, arg |-> state_copy]
          [] cmd_fn = "c_dirty_fail" ->
               [ret |-> None, arg |-> IF moves THEN moved(args[2]) ELSE state_copy]
          [] cmd_fn = "c_halfway" ->
               IF moves
               THEN LET target == IF get_var(state_copy, "loc", args[1].s) = Some(Str("mid"))
                                  THEN args[2] ELSE Str("mid")
                    IN  [ret |-> Some(moved(target)), arg |-> moved(target)]
               ELSE [ret |-> None, arg |-> state_copy]
          [] OTHER -> [ret |-> acted, arg |-> IF acted.some THEN acted.val ELSE state_copy]

\* mutant: the action callable is preferred to the command
CommandFor_actionFirst(domain, action_name) ==
    IF get_action(domain, action_name).some
    THEN get_action(domain, action_name)
    ELSE get_command(domain, "c_" \o action_name)

\* mutant: no fallback to the action callable
CommandFor_commandOnly(domain, action_name) == get_command(domain, "c_" \o action_name)

\* get_command(c_<name>).or_else(|| get_action(name))
CommandFor(domain, action_name) ==
    IF get_command(domain, "c_" \o action_name).some
    THEN get_command(domain, "c_" \o action_name)
    ELSE get_action(domain, action_name)

\* mutant: one pass more than max_tries
LoopContinues_oneMore(tries, max_tries) == tries <= max_tries

\* for tries in 1..=max_tries, with tries the number of passes made so far
LoopContinues(tries, max_tries) == tries < max_tries

\* mutant: the clone the failing command worked on becomes the current state
StateAfterFailure_keepsClone(state, out) == out.arg

\* a failed command: state_copy is dropped, state is not assigned
StateAfterFailure(state, out) == state

RllOk(state) == [kind |-> "ok", state |-> state]
RllErr == [kind |-> "err", state |-> StateNew]

\* mutant: no plan is a success at every verbose level
NoPlanResult_alwaysOk(p, state) == [kind |-> "ok", state |-> state]

\* find_plan returned None
NoPlanResult(p, state) == IF is_verbose(p, 1) THEN RllErr ELSE RllOk(state)

\* the outcome of the command for the item of the plan that is next
NextCommand ==
    LET action == rll.plan[rll.next]
        command_fn == CommandFor(planner.domain, action.name)
    IN  IF command_fn.some
        THEN [found |-> TRUE, name |-> command_fn.val,
              out |-> CallCommand(command_fn.val, StateCopy(rll.state), action.args)]
        ELSE [found |-> FALSE, name |-> "",
              out |-> [ret |-> None, arg |-> StateCopy(rll.state)]]

\* one more pass of the outer loop: the find_plan call of this pass
Planned == CallFindPlan(planner, rll.state, rll.todo_list)

AfterFindPlan(r) ==
    [r EXCEPT !.tries = @ + 1, !.calls = @ + 1, !.state = Planned.state,
              !.planned = Append(@, [from |-> rll.state, found |-> Planned.found,
                                     executed |-> Len(rll.executed)])]

\* domains with commands: for move one that works, one that fails, one that
\* fails after changing its argument, one that gets halfway; none for putv and
\* getv, or failing ones
LookaheadDomains ==
    { ReversedDomain,
      declare_command(ReversedDomain, "c_move", "c_move"),
      declare_command(ReversedDomain, "c_move", "c_fail"),
      declare_command(ReversedDomain, "c_move", "c_dirty_fail"),
      declare_command(ReversedDomain, "c_move", "c_halfway"),
      declare_command(BacktrackingDomain, "c_getv", "c_fail"),
      declare_command(declare_command(BacktrackingDomain, "c_getv", "c_fail"),
                      "c_putv", "c_fail") }

LookaheadItems ==
    { Task("go", <<Str("alice"), Str("park")>>), Task("put_it", <<>>),
      Task("need0", <<>>), Task("fly", <<>>),
      Unigoal("loc", "alice", Str("park")), MultigoalItem(Goal1("k0")) }

LookaheadTodos == UNION {[1..n -> LookaheadItems] : n \in 0..MaxTodo}

LookaheadInit ==
    /\ building = NotBuilding
    /\ probe = NoProbe
    /\ caller = NoCaller
    /\ globals = GlobalsNew
    /\ \E d \in LookaheadDomains, level \in 0..1 :
           planner = with_verbose_level(PlannerNew(d), level).val
    /\ state0 \in States0
    /\ todo0 \in LookaheadTodos
    /\ todo1 = todo0
    /\ pc = "lookahead"
    /\ stack = <<>>
    /\ results = [Iterative |-> Pending, Recursive |-> Pending, Repeated |-> Pending]
    /\ \E max_tries \in 0..MaxTries : rll = Lookahead(state0, todo0, max_tries)

\* the loop is over (or never entered): Ok(state)
RllGiveUp ==
    /\ rll.pc = "loop"
    /\ ~LoopContinues(rll.tries, rll.max_tries)
    /\ rll' = [rll EXCEPT !.pc = "returned", !.result = RllOk(rll.state)]
    /\ UNCHANGED <<planner, state0, todo0, todo1, pc, stack, results, caller, globals, building, probe>>

\* find_plan returns None
RllNoPlan ==
    /\ rll.pc = "loop"
    /\ LoopContinues(rll.tries, rll.max_tries)
    /\ Planned.found.kind = "none"
    /\ rll' = [AfterFindPlan(rll) EXCEPT
                  !.pc = "returned", !.result = NoPlanResult(planner, Planned.state)]
    /\ UNCHANGED <<planner, state0, todo0, todo1, pc, stack, results, caller, globals, building, probe>>

\* find_plan returns the empty plan
RllEmptyPlan ==
    /\ rll.pc = "loop"
    /\ LoopContinues(rll.tries, rll.max_tries)
    /\ Planned.found.kind = "plan"
    /\ Planned.found.plan = <<>>
    /\ rll' = [AfterFindPlan(rll) EXCEPT
                  !.pc = "returned", !.result = RllOk(Planned.state)]
    /\ UNCHANGED <<planner, state0, todo0, todo1, pc, stack, results, caller, globals, building, probe>>

\* find_plan returns a plan to execute
RllPlanFound ==
    /\ rll.pc = "loop"
    /\ LoopContinues(rll.tries, rll.max_tries)
    /\ Planned.found.kind = "plan"
    /\ Planned.found.plan # <<>>
    /\ rll' = [AfterFindPlan(rll) EXCEPT
                  !.pc = "exec", !.plan = Planned.found.plan, !.next = 1]
    /\ UNCHANGED <<planner, state0, todo0, todo1, pc, stack, results, caller, globals, building, probe>>

\* the next command succeeds: its state becomes the current one
RllCommandOk ==
    /\ rll.pc = "exec"
    /\ rll.next <= Len(rll.plan)
    /\ NextCommand.out.ret.some
    /\ rll' = [rll EXCEPT
                  !.state = NextCommand.out.ret.val,
                  !.next = @ + 1,
                  !.executed = Append(@, [name |-> NextCommand.name,
                                          item |-> rll.plan[rll.next], ok |-> TRUE,
                                          before |-> rll.state,
                                          after |-> NextCommand.out.ret.val])]
    /\ UNCHANGED <<planner, state0, todo0, todo1, pc, stack, results, caller, globals, building, probe>>

\* the next command fails (or there is none): the rest of the plan is dropped
RllCommandFails ==
    /\ rll.pc = "exec"
    /\ rll.next <= Len(rll.plan)
    /\ ~NextCommand.out.ret.some
    /\ rll' = [rll EXCEPT
                  !.pc = "loop",
                  !.state = StateAfterFailure(rll.state, NextCommand.out),
                  !.executed = Append(@, [name |-> NextCommand.name,
                                          item |-> rll.plan[rll.next], ok |-> FALSE,
                                          before |-> rll.state,
                                          after |-> StateAfterFailure(rll.state,
                                                                      NextCommand.out)])]
    /\ UNCHANGED <<planner, state0, todo0, todo1, pc, stack, results, caller, globals, building, probe>>

\* every command of the plan succeeded: next pass
RllPlanEnded ==
    /\ rll.pc = "exec"
    /\ rll.next > Len(rll.plan)
    /\ rll' = [rll EXCEPT !.pc = "loop"]
    /\ UNCHANGED <<planner, state0, todo0, todo1, pc, stack, results, caller, globals, building, probe>>

LookaheadNext ==
    RllGiveUp \/ RllNoPlan \/ RllEmptyPlan \/ RllPlanFound \/ RllCommandOk
        \/ RllCommandFails \/ RllPlanEnded

LookaheadSpec == LookaheadInit /\ [][LookaheadNext]_vars

(***************************************************************************)
(* Properties of run_lazy_lookahead.                                       *)
(***************************************************************************)
\* a step that is a find_plan call
FindPlanStep == rll'.calls = rll.calls + 1

RECURSIVE LastAchieved(_, _)
LastAchieved(executed, input) ==
    IF executed = <<>> THEN input
    ELSE IF executed[Len(executed)].ok THEN executed[Len(executed)].after
    ELSE LastAchieved(SubSeq(executed, 1, Len(executed) - 1), input)

Returned == rll.pc = "returned"

\* what is left to do: the passes not yet made, each worth more than a plan is
\* long, and the commands left of the plan being executed
Variant ==
    LET passes == (rll.max_tries - rll.tries) * (MaxDepth + 2)
    IN  CASE rll.pc = "loop" -> 1 + passes
          [] rll.pc = "exec" -> 2 + passes + (Len(rll.plan) + 1 - rll.next)
          [] OTHER -> 0

\* C17: run_lazy_lookahead calls find_plan at most max_tries times, one call
\* for every pass of its outer loop; when it returns a state, that is the last
\* state achieved; with max_tries = 0 it returns the input state without a
\* find_plan call or a command; and it always returns: until it has returned a
\* step is possible, and every step makes the variant, a natural number, smaller.
BoundedByMaxTries ==
    /\ [](/\ rll.calls <= rll.max_tries
          /\ rll.calls = rll.tries
          /\ (Returned /\ rll.result.kind = "ok")
                => rll.result.state = LastAchieved(rll.executed, rll.input)
          /\ (Returned /\ rll.max_tries = 0)
                => /\ rll.result = RllOk(rll.input)
                   /\ rll.calls = 0
                   /\ rll.executed = <<>>)
    /\ [](/\ rll.pc \in {"loop", "exec", "returned"}
          /\ Variant >= 0
          /\ (rll.pc = "loop" /\ LoopContinues(rll.tries, rll.max_tries))
                => Planned.found.kind \in {"none", "plan"})
    /\ [][Variant' < Variant]_vars

\* the tries ran out after passes whose plan ran to its end and passes cut
\* short by a failing command
BoundedByMaxTriesWitness ==
    /\ Returned
    /\ rll.max_tries = MaxTries
    /\ rll.calls = rll.max_tries
    /\ rll.pc = "returned"
    /\ rll.result.kind = "ok"
    /\ \E k \in 1..Len(rll.executed) : rll.executed[k].ok
    /\ ~rll.executed[Len(rll.executed)].ok

\* a step in which the command that is next fails
CommandFailureStep ==
    /\ rll.pc = "exec"
    /\ rll.next <= Len(rll.plan)
    /\ ~NextCommand.out.ret.some
    /\ rll' # rll

\* C18: when a command fails, the rest of the plan is not executed, the current
\* state stays the one the last successful command returned (what the failing
\* command did to its clone is dropped), and the next find_plan call starts from
\* it; if every command fails, the state returned has the variables of the
\* input state.
CommandFailure ==
    /\ [][CommandFailureStep
            => /\ rll'.pc = "loop"
               /\ rll'.state = rll.state
               /\ rll.state = LastAchieved(rll.executed, rll.input)]_vars
    /\ [](\A k \in 1..Len(rll.planned) :
             rll.planned[k].from =
                 LastAchieved(SubSeq(rll.executed, 1, rll.planned[k].executed),
                              rll.input))
    /\ []((/\ Returned
           /\ rll.result.kind = "ok"
           /\ \A k \in 1..Len(rll.executed) : ~rll.executed[k].ok)
             => rll.result.state.variables = rll.input.variables)

\* a command failed after changing its clone, behind a command that succeeded,
\* and find_plan was called again
CommandFailureWitness ==
    /\ Len(rll.executed) >= 2
    /\ rll.executed[1].ok
    /\ ~rll.executed[2].ok
    /\ rll.calls = 2
    /\ rll.planned[2].from = rll.executed[1].after
    /\ rll.planned[2].from # rll.input

\* a step in which find_plan returns no plan
NoPlanStep ==
    /\ rll.pc = "loop"
    /\ LoopContinues(rll.tries, rll.max_tries)
    /\ find_plan(planner, rll.state, rll.todo_list).kind = "none"
    /\ rll' # rll

\* C19: when find_plan returns no plan, run_lazy_lookahead returns without
\* executing a command: the current state, unchanged, at verbose level 0, and
\* an error at verbose level 1 or more.
NoPlanStopsLookahead ==
    [][NoPlanStep
         => /\ rll'.pc = "returned"
            /\ rll'.executed = rll.executed
            /\ rll'.result = IF planner.verbose_level = 0
                             THEN [kind |-> "ok", state |-> rll.state]
                             ELSE [kind |-> "err", state |-> StateNew]]_vars

\* no plan at verbose level 1: an error is returned
NoPlanStopsLookaheadWitness ==
    /\ Returned
    /\ planner.verbose_level >= 1
    /\ rll.calls = 1
    /\ rll.planned[1].found.kind = "none"
    /\ rll.result.kind = "err"

\* the callable run_lazy_lookahead is to use for an action of the plan
ExpectedCommand(item) ==
    IF ("c_" \o item.name) \in DOMAIN planner.domain.commands
    THEN planner.domain.commands["c_" \o item.name]
    ELSE planner.domain.actions[item.name]

\* C20: the commands of a plan are executed in plan order, one per Action: the
\* command c_<name> when one is registered, the action <name> only when none
\* is; after each success the current state is the state the command returned;
\* on the empty plan the current state is returned at once, no command executed.
CommandsInPlanOrder ==
    /\ \A k \in 1..Len(rll.executed) :
          LET e == rll.executed[k]
              out == CallCommand(ExpectedCommand(e.item), StateCopy(e.before), e.item.args)
          IN  /\ e.name = ExpectedCommand(e.item)
              /\ e.ok = out.ret.some
              /\ e.ok => e.after = out.ret.val
    /\ rll.state = LastAchieved(rll.executed, rll.input)
    /\ rll.pc = "exec"
          => \A j \in 1..(rll.next - 1) :
                 LET e == rll.executed[rll.planned[rll.calls].executed + j]
                 IN  e.item = rll.plan[j] /\ e.ok
    /\ (Returned /\ rll.calls > 0 /\ rll.planned[rll.calls].found = OkSome(<<>>))
          => /\ rll.result = RllOk(rll.planned[rll.calls].from)
             /\ Len(rll.executed) = rll.planned[rll.calls].executed

\* two commands of one plan were executed in plan order, the first through the
\* action of its name and a later one through a registered command
CommandsInPlanOrderWitness ==
    /\ Returned
    /\ Len(rll.executed) >= 2
    /\ rll.planned[1].executed = 0
    /\ Len(rll.planned[1].found.plan) >= 2
    /\ rll.executed[1].item = rll.planned[1].found.plan[1]
    /\ rll.executed[2].item = rll.planned[1].found.plan[2]
    /\ rll.executed[1].ok /\ rll.executed[2].ok
    /\ \E k \in 1..Len(rll.executed) :
          /\ rll.executed[k].ok
          /\ ("c_" \o rll.executed[k].item.name) \in DOMAIN planner.domain.commands
    /\ \E k \in 1..Len(rll.executed) :
          ("c_" \o rll.executed[k].item.name) \notin DOMAIN planner.domain.commands

(***************************************************************************)
(* Configuration: a caller configures a PlannerBuilder, builds planners,   *)
(* derives planners from them with the with_ family, and sets the          *)
(* process-wide verbose level.  One step is one call.                      *)
(***************************************************************************)
\* a domain of the caller's own under three names, and the blocks domain
ConfigDomains ==
    { BacktrackingDomain, DomainCopy(BacktrackingDomain, "blocks_htn"),
      create_blocks_htn_domain_with_multigoals(<<>>) }

\* levels inside and outside 0..=3
Levels == {-1, 0, 2, 4}

ConfigGoals == { Goal1("k0"), set_goal(MultigoalNew("goal2"), "flag", "value", Num(0)) }

ConfigInit ==
    /\ building = NotBuilding
    /\ probe = NoProbe
    /\ planner = PlannerNew(BacktrackingDomain)
    /\ state0 \in States0
    /\ todo0 = <<>>
    /\ todo1 = <<>>
    /\ pc = "config"
    /\ stack = <<>>
    /\ results = [Iterative |-> Pending, Recursive |-> Pending, Repeated |-> Pending]
    /\ rll = NoLookahead
    /\ caller \in {Caller(PlannerBuilderNew)}
                    \cup {Caller(PlannerBuilder_with_domain(PlannerBuilderNew, d)) :
                            d \in ConfigDomains}
    /\ globals = GlobalsNew

\* the argument of a call: a level, a strategy, a flag, or the name of a
\* domain or of a multigoal
LevelArg(level) == [NoArg EXCEPT !.level = level]
StrategyArg(strategy) == [NoArg EXCEPT !.strategy = strategy]
VerifyArg(verify) == [NoArg EXCEPT !.verify = verify]
NameArg(name) == [NoArg EXCEPT !.name = name]

Call(op, ok, of, new, arg) == [op |-> op, ok |-> ok, of |-> of, new |-> new, arg |-> arg]

CanCall == pc = "config" /\ caller.ops < MaxOps

Alive == {h \in 1..Len(caller.planners) : caller.planners[h].alive}

\* what the caller holds after a call that returned a new planner
Derived(c, op, h, arg, p) ==
    [c EXCEPT !.planners = Append(@, [alive |-> TRUE, p |-> p]),
              !.last = Call(op, TRUE, h, Len(c.planners) + 1, arg),
              !.ops = @ + 1]

\* what the caller holds after a call that returned an error
Failed(c, op, h, arg) == [c EXCEPT !.last = Call(op, FALSE, h, 0, arg), !.ops = @ + 1]

BuilderWithDomain ==
    /\ CanCall
    /\ \E d \in ConfigDomains :
           caller' = [caller EXCEPT !.builder = PlannerBuilder_with_domain(@, d),
                                    !.last = Call("PlannerBuilder::with_domain", TRUE, 0, 0,
                                                  NameArg(d.name)),
                                    !.ops = @ + 1]
    /\ UNCHANGED <<planner, state0, todo0, todo1, pc, stack, results, rll, globals, building, probe>>

BuilderWithVerboseLevel ==
    /\ CanCall
    /\ \E level \in Levels :
           LET r == PlannerBuilder_with_verbose_level(caller.builder, level)
           IN  caller' = IF r.ok
                         THEN [caller EXCEPT
                                  !.builder = r.val,
                                  !.last = Call("PlannerBuilder::with_verbose_level",
                                                TRUE, 0, 0, LevelArg(level)),
                                  !.ops = @ + 1]
                         ELSE Failed(caller, "PlannerBuilder::with_verbose_level", 0,
                                     LevelArg(level))
    /\ UNCHANGED <<planner, state0, todo0, todo1, pc, stack, results, rll, globals, building, probe>>

BuilderWithStrategy ==
    /\ CanCall
    /\ \E strategy \in {"Iterative", "Recursive"} :
           caller' = [caller EXCEPT !.builder = PlannerBuilder_with_strategy(@, strategy),
                                    !.last = Call("PlannerBuilder::with_strategy", TRUE, 0, 0,
                                                  StrategyArg(strategy)),
                                    !.ops = @ + 1]
    /\ UNCHANGED <<planner, state0, todo0, todo1, pc, stack, results, rll, globals, building, probe>>

BuilderWithGoalVerification ==
    /\ CanCall
    /\ \E verify \in BOOLEAN :
           caller' = [caller EXCEPT
                         !.builder = PlannerBuilder_with_goal_verification(@, verify),
                         !.last = Call("PlannerBuilder::with_goal_verification", TRUE, 0, 0,
                                       VerifyArg(verify)),
                         !.ops = @ + 1]
    /\ UNCHANGED <<planner, state0, todo0, todo1, pc, stack, results, rll, globals, building, probe>>

BuilderWithMultigoal ==
    /\ CanCall
    /\ \E mg \in ConfigGoals :
           caller' = [caller EXCEPT
                         !.builder = PlannerBuilder_with_multigoal(@, mg),
                         !.last = Call("PlannerBuilder::with_multigoal", TRUE, 0, 0,
                                       NameArg(mg.name)),
                         !.ops = @ + 1]
    /\ UNCHANGED <<planner, state0, todo0, todo1, pc, stack, results, rll, globals, building, probe>>

\* build() on a clone of the builder
Build ==
    /\ CanCall
    /\ LET r == PlannerBuilder_build(caller.builder)
       IN  caller' = IF r.ok
                     THEN Derived(caller, "PlannerBuilder::build", 0, NoArg, r.val)
                     ELSE Failed(caller, "PlannerBuilder::build", 0, NoArg)
    /\ UNCHANGED <<planner, state0, todo0, todo1, pc, stack, results, rll, globals, building, probe>>

PlannerWithVerboseLevel ==
    /\ CanCall
    /\ \E h \in Alive, level \in Levels :
           LET r == with_verbose_level(caller.planners[h].p, level)
           IN  caller' = IF r.ok
                         THEN Derived(caller, "Planner::with_verbose_level", h,
                                      LevelArg(level), r.val)
                         ELSE Failed(caller, "Planner::with_verbose_level", h, LevelArg(level))
    /\ UNCHANGED <<planner, state0, todo0, todo1, pc, stack, results, rll, globals, building, probe>>

PlannerWithStrategy ==
    /\ CanCall
    /\ \E h \in Alive, strategy \in {"Iterative", "Recursive"} :
           caller' = Derived(caller, "Planner::with_strategy", h, StrategyArg(strategy),
                             with_strategy(caller.planners[h].p, strategy))
    /\ UNCHANGED <<planner, state0, todo0, todo1, pc, stack, results, rll, globals, building, probe>>

PlannerWithGoalVerification ==
    /\ CanCall
    /\ \E h \in Alive, verify \in BOOLEAN :
           caller' = Derived(caller, "Planner::with_goal_verification", h, VerifyArg(verify),
                             with_goal_verification(caller.planners[h].p, verify))
    /\ UNCHANGED <<planner, state0, todo0, todo1, pc, stack, results, rll, globals, building, probe>>

\* with_multigoal takes its receiver by value: the caller no longer has it
PlannerWithMultigoal ==
    /\ CanCall
    /\ \E h \in Alive, mg \in ConfigGoals :
           caller' = Derived([caller EXCEPT !.planners[h].alive = FALSE],
                             "Planner::with_multigoal", h, NameArg(mg.name),
                             with_multigoal(caller.planners[h].p, mg))
    /\ UNCHANGED <<planner, state0, todo0, todo1, pc, stack, results, rll, globals, building, probe>>

\* set_verbose_level called by the caller
SetVerboseLevel ==
    /\ CanCall
    /\ \E level \in Levels :
           LET r == set_verbose_level(globals, level)
           IN  /\ globals' = r.val
               /\ caller' = [caller EXCEPT !.last = Call("set_verbose_level", r.ok, 0, 0,
                                                         LevelArg(level)),
                                           !.ops = @ + 1]
    /\ UNCHANGED <<planner, state0, todo0, todo1, pc, stack, results, rll, building, probe>>

ConfigNext ==
    \/ BuilderWithDomain \/ BuilderWithVerboseLevel \/ BuilderWithStrategy
    \/ BuilderWithGoalVerification \/ BuilderWithMultigoal \/ Build
    \/ PlannerWithVerboseLevel \/ PlannerWithStrategy \/ PlannerWithGoalVerification
    \/ PlannerWithMultigoal \/ SetVerboseLevel

ConfigSpec == ConfigInit /\ [][ConfigNext]_vars

(***************************************************************************)
(* Properties of the configuration calls.                                  *)
(***************************************************************************)
\* a step that is a build() call
BuildStep == caller'.ops = caller.ops + 1 /\ caller'.last.op = "PlannerBuilder::build"

\* the planner a successful call has just returned
Returned_planner == caller'.planners[caller'.last.new].p

LookupNames ==
    { "putv", "getv", "move", "pickup", "stack", "c_move", "put_it", "need0",
      "achieve", "take", "put", "_verify_g", "_verify_mg", "loc", "flag" }

\* every lookup gives the same callables in both domains
SameLookups(d1, d2) ==
    /\ \A name \in LookupNames :
          /\ get_action(d1, name) = get_action(d2, name)
          /\ get_command(d1, name) = get_command(d2, name)
          /\ get_task_methods(d1, name) = get_task_methods(d2, name)
          /\ get_unigoal_methods(d1, name) = get_unigoal_methods(d2, name)
    /\ get_multigoal_methods(d1) = get_multigoal_methods(d2)

\* C21: the planner that build() returns looks up actions, commands and
\* methods in exactly the domain that was given to with_domain, whatever the
\* domain's name and whatever multigoals are registered.
BuildKeepsDomain ==
    [][(BuildStep /\ caller'.last.ok)
         => SameLookups(Returned_planner.domain, caller.builder.domain.val)]_vars

\* a step that is a call, and one that is a call returning an error
CallStep == caller'.ops = caller.ops + 1

FailedStep == CallStep /\ ~caller'.last.ok

ConfigTodos ==
    { <<>>, <<Task("put_it", <<>>)>>, <<Task("fly", <<>>)>>,
      <<Unigoal("loc", "alice", Str("park"))>>, <<Action("getv", <<Num(1)>>)>> }

\* C22: configuration errors arise only at build time.  A verbose level is
\* refused by PlannerBuilder::with_verbose_level, Planner::with_verbose_level
\* and set_verbose_level exactly when it is outside 0..3, and a refused call
\* changes nothing (the previous level stays in effect); build() fails exactly when the builder has no domain; so
\* every planner has a level in 0..3 and a domain that was given to a builder,
\* and find_plan on it returns a plan or no plan, never an error.
ConfigErrorsOnlyAtBuildTime ==
    /\ [][(CallStep /\ caller'.last.op \in {"PlannerBuilder::with_verbose_level",
                                              "Planner::with_verbose_level",
                                              "set_verbose_level"})
            => (caller'.last.ok <=> caller'.last.arg.level \in 0..3)]_vars
    /\ [][FailedStep => /\ caller'.builder = caller.builder
                        /\ caller'.planners = caller.planners
                        /\ globals' = globals]_vars
    /\ [][BuildStep => (caller'.last.ok <=> caller.builder.domain.some)]_vars
    /\ [](/\ caller.builder.verbose_level \in 0..3
          /\ globals.VERBOSE_LEVEL \in 0..3
          /\ \A h \in 1..Len(caller.planners) :
                LET p == caller.planners[h].p
                IN  /\ p.verbose_level \in 0..3
                    /\ \E d \in ConfigDomains : p.domain.name = d.name
                    /\ \A state \in States0, todo_list \in ConfigTodos :
                          find_plan(p, state, todo_list).kind \in {"plan", "none"})

\* a planner was built, and the last call asked it for a level outside 0..3
ConfigErrorsOnlyAtBuildTimeWitness ==
    /\ Alive # {}
    /\ caller.last = Call("Planner::with_verbose_level", FALSE, 1, 0, LevelArg(4))
    /\ caller.planners[1].p.verbose_level = 2
    /\ find_plan(caller.planners[1].p, StateA, <<Task("put_it", <<>>)>>).kind = "plan"

\* a successful call of a with_ method of Planner that takes &self
WithStep(op) == CallStep /\ caller'.last.ok /\ caller'.last.op = op

Receiver == caller.planners[caller'.last.of].p

\* C23: Planner::with_verbose_level, with_strategy and with_goal_verification
\* return a new Planner that has the named option as asked and the receiver's
\* other options, domain and multigoal table; and no call changes the
\* configuration of a Planner that exists.
PlannerImmutability ==
    /\ [][WithStep("Planner::with_verbose_level")
            => Returned_planner = [domain |-> Receiver.domain,
                                   verbose_level |-> caller'.last.arg.level,
                                   strategy |-> Receiver.strategy,
                                   verify_goals |-> Receiver.verify_goals,
                                   multigoals |-> Receiver.multigoals]]_vars
    /\ [][WithStep("Planner::with_strategy")
            => Returned_planner = [domain |-> Receiver.domain,
                                   verbose_level |-> Receiver.verbose_level,
                                   strategy |-> caller'.last.arg.strategy,
                                   verify_goals |-> Receiver.verify_goals,
                                   multigoals |-> Receiver.multigoals]]_vars
    /\ [][WithStep("Planner::with_goal_verification")
            => Returned_planner = [domain |-> Receiver.domain,
                                   verbose_level |-> Receiver.verbose_level,
                                   strategy |-> Receiver.strategy,
                                   verify_goals |-> caller'.last.arg.verify,
                                   multigoals |-> Receiver.multigoals]]_vars
    /\ [][CallStep => /\ Len(caller'.planners) >= Len(caller.planners)
                      /\ \A h \in 1..Len(caller.planners) :
                            caller'.planners[h].p = caller.planners[h].p]_vars

\* a planner built with non-default options and a multigoal, and a planner
\* derived from it by with_strategy, both held by the caller
PlannerImmutabilityWitness ==
    /\ caller.last = Call("Planner::with_strategy", TRUE, 1, 2, StrategyArg("Recursive"))
    /\ caller.planners[1].p.strategy = "Iterative"
    /\ caller.planners[1].p.multigoals # <<>>
    /\ caller.planners[2].p.strategy = "Recursive"
    /\ caller.planners[2].p.multigoals = caller.planners[1].p.multigoals

(***************************************************************************)
(* Concurrency: one thread runs find_plan (iterative, one loop iteration   *)
(* per step), a second runs run_lazy_lookahead on the same planner, and a  *)
(* third calls the process-wide setters at any time.                       *)
(***************************************************************************)
ConcurrentDomains ==
    { ReversedDomain, declare_command(ReversedDomain, "c_move", "c_fail") }

ConcurrentTodos ==
    { <<>>, <<Task("fly", <<>>)>>, <<Task("put_it", <<>>)>>,
      <<Task("go", <<Str("alice"), Str("park")>>)>>,
      <<Unigoal("loc", "alice", Str("park")), Task("fly", <<>>)>>,
      <<MultigoalItem(Goal1("k0"))>> }

ConcurrentInit ==
    /\ building = NotBuilding
    /\ probe = NoProbe
    /\ \E d \in ConcurrentDomains, level \in 0..1 :
           planner = with_verbose_level(PlannerNew(d), level).val
    /\ state0 \in States0
    /\ todo0 \in ConcurrentTodos
    /\ todo1 = todo0
    /\ pc = "start"
    /\ stack = <<>>
    /\ results = [Iterative |-> Pending, Recursive |-> Pending, Repeated |-> Pending]
    /\ \E max_tries \in {1, MaxTries} : rll = Lookahead(state0, todo0, max_tries)
    /\ caller = NoCaller
    /\ globals = GlobalsNew

OtherSetsVerboseLevel ==
    /\ \E level \in Levels : globals' = set_verbose_level(globals, level).val
    /\ UNCHANGED <<planner, state0, todo0, todo1, pc, stack, results, rll, caller, building, probe>>

OtherSetsPlanningStrategy ==
    /\ \E strategy \in {"Iterative", "Recursive"} :
           globals' = set_planning_strategy(globals, strategy)
    /\ UNCHANGED <<planner, state0, todo0, todo1, pc, stack, results, rll, caller, building, probe>>

OtherSetsPlanningContext ==
    /\ \E d \in ConcurrentDomains :
           globals' = set_planning_context(globals, PlanningContextNew(d))
    /\ UNCHANGED <<planner, state0, todo0, todo1, pc, stack, results, rll, caller, building, probe>>

ConcurrentNext ==
    \/ CallIterative \/ IterReturn \/ IterExpand \/ IterExhausted
    \/ RllGiveUp \/ RllNoPlan \/ RllEmptyPlan \/ RllPlanFound \/ RllCommandOk
    \/ RllCommandFails \/ RllPlanEnded
    \/ OtherSetsVerboseLevel \/ OtherSetsPlanningStrategy \/ OtherSetsPlanningContext

ConcurrentSpec == ConcurrentInit /\ [][ConcurrentNext]_vars

\* the commands of a plan run one after the other on their own, up to the
\* first that fails or is missing: the state that is then current
RECURSIVE ExecuteAlone(_, _, _, _)
ExecuteAlone(domain, state, plan, i) ==
    IF i > Len(plan) THEN state
    ELSE LET command_fn == CommandFor(domain, plan[i].name)
             out == CallCommand(command_fn.val, StateCopy(state), plan[i].args)
         IN  IF command_fn.some /\ out.ret.some
             THEN ExecuteAlone(domain, out.ret.val, plan, i + 1)
             ELSE state

\* run_lazy_lookahead run from call to return with nothing else going on
RECURSIVE RunAlone(_, _, _, _)
RunAlone(p, state, todo_list, tries_left) ==
    IF tries_left = 0 THEN [kind |-> "ok", state |-> state]
    ELSE LET found == find_plan(p, state, todo_list)
         IN  CASE found.kind = "none" ->
                    IF p.verbose_level >= 1
                    THEN [kind |-> "err", state |-> StateNew]
                    ELSE [kind |-> "ok", state |-> state]
               [] found.kind = "plan" /\ found.plan = <<>> ->
                    [kind |-> "ok", state |-> state]
               [] found.kind = "plan" /\ found.plan # <<>> ->
                    RunAlone(p, ExecuteAlone(p.domain, state, found.plan, 1),
                             todo_list, tries_left - 1)
               [] OTHER -> [kind |-> "diverged", state |-> state]

\* a step of the find_plan thread or of the run_lazy_lookahead thread
PlannerThreadStep == pc' # pc \/ stack' # stack \/ results' # results \/ rll' # rll

\* C24: find_plan and run_lazy_lookahead on a Planner neither read nor write
\* the process-wide settings: run concurrently, and interleaved with
\* set_verbose_level, set_planning_strategy and set_planning_context, each
\* returns what it returns when run alone, and leaves the settings as they are.
ConcurrentIndependence ==
    /\ [](pc = "between" => results.Iterative = FindPlanIterative(planner, state0, todo0))
    /\ [](Returned => rll.result = RunAlone(planner, rll.input, rll.todo_list,
                                             rll.max_tries))
    /\ [][PlannerThreadStep => globals' = globals]_vars

\* both calls have returned, the lookahead with Ok after find_plan found no
\* plan (the planner's level is 0), while the process-wide level is 2, the
\* process-wide strategy is Recursive and a planning context is set
ConcurrentIndependenceWitness ==
    /\ pc = "between"
    /\ results.Iterative.kind = "none"
    /\ Returned
    /\ rll.calls = 1
    /\ rll.planned[1].found.kind = "none"
    /\ rll.result.kind = "ok"
    /\ planner.verbose_level = 0
    /\ globals.VERBOSE_LEVEL = 2
    /\ globals.CURRENT_STRATEGY = Some("Recursive")
    /\ globals.PLANNING_CONTEXT.some

(***************************************************************************)
(* Building a domain: a Domain is made by Domain::new and then given       *)
(* declarations, one call per step.                                        *)
(***************************************************************************)
MethodLists == { <<>>, <<"m0">>, <<"m1", "m0">> }

TaskNames == { "put_it", "_verify_g" }

DomainInit ==
    /\ probe = NoProbe
    /\ planner = PlannerNew(BacktrackingDomain)
    /\ state0 \in States0
    /\ todo0 = <<>>
    /\ todo1 = <<>>
    /\ pc = "domain"
    /\ stack = <<>>
    /\ results = [Iterative |-> Pending, Recursive |-> Pending, Repeated |-> Pending]
    /\ rll = NoLookahead
    /\ caller = NoCaller
    /\ globals = GlobalsNew
    /\ \E name \in {"d1", "d2"} : building = Building(DomainNew(name))

CanDeclare == pc = "domain" /\ Len(building.declared) < MaxDeclared

Declared(registry, name, methods) ==
    [registry |-> registry, name |-> name, methods |-> methods]

DeclareTaskMethods ==
    /\ CanDeclare
    /\ \E task_name \in TaskNames, methods \in MethodLists :
           building' = [domain |-> declare_task_methods(building.domain, task_name, methods),
                        declared |-> Append(building.declared,
                                            Declared("task", task_name, methods))]
    /\ UNCHANGED <<planner, state0, todo0, todo1, pc, stack, results, rll, caller, globals, probe>>

DeclareTaskMethod ==
    /\ CanDeclare
    /\ \E task_name \in TaskNames, method_fn \in {"m0", "m1"} :
           building' = [domain |-> declare_task_method(building.domain, task_name, method_fn),
                        declared |-> Append(building.declared,
                                            Declared("task", task_name, <<method_fn>>))]
    /\ UNCHANGED <<planner, state0, todo0, todo1, pc, stack, results, rll, caller, globals, probe>>

DeclareUnigoalMethods ==
    /\ CanDeclare
    /\ \E methods \in {<<>>, <<"u_noop", "u_move">>} :
           building' = [domain |-> declare_unigoal_methods(building.domain, "loc", methods),
                        declared |-> Append(building.declared,
                                            Declared("unigoal", "loc", methods))]
    /\ UNCHANGED <<planner, state0, todo0, todo1, pc, stack, results, rll, caller, globals, probe>>

DeclareUnigoalMethod ==
    /\ CanDeclare
    /\ \E method_fn \in {"u_noop", "u_move"} :
           building' = [domain |-> declare_unigoal_method(building.domain, "loc", method_fn),
                        declared |-> Append(building.declared,
                                            Declared("unigoal", "loc", <<method_fn>>))]
    /\ UNCHANGED <<planner, state0, todo0, todo1, pc, stack, results, rll, caller, globals, probe>>

DeclareMultigoalMethods ==
    /\ CanDeclare
    /\ \E methods \in {<<>>, <<"mg_doc", "mg_other">>} :
           building' = [domain |-> declare_multigoal_methods(building.domain, methods),
                        declared |-> Append(building.declared,
                                            Declared("multigoal", "", methods))]
    /\ UNCHANGED <<planner, state0, todo0, todo1, pc, stack, results, rll, caller, globals, probe>>

DeclareMultigoalMethod ==
    /\ CanDeclare
    /\ \E method_fn \in {"mg_doc", "mg_other"} :
           building' = [domain |-> declare_multigoal_method(building.domain, method_fn),
                        declared |-> Append(building.declared,
                                            Declared("multigoal", "", <<method_fn>>))]
    /\ UNCHANGED <<planner, state0, todo0, todo1, pc, stack, results, rll, caller, globals, probe>>

\* declarations that are not of methods
DeclareAction ==
    /\ CanDeclare
    /\ building' = [domain |-> declare_action(building.domain, "put_it", "putv"),
                    declared |-> Append(building.declared,
                                        Declared("action", "put_it", <<"putv">>))]
    /\ UNCHANGED <<planner, state0, todo0, todo1, pc, stack, results, rll, caller, globals, probe>>

DeclareCommand ==
    /\ CanDeclare
    /\ building' = [domain |-> declare_command(building.domain, "c_put_it", "c_fail"),
                    declared |-> Append(building.declared,
                                        Declared("command", "c_put_it", <<"c_fail">>))]
    /\ UNCHANGED <<planner, state0, todo0, todo1, pc, stack, results, rll, caller, globals, probe>>

DomainNext ==
    \/ DeclareTaskMethods \/ DeclareTaskMethod \/ DeclareUnigoalMethods
    \/ DeclareUnigoalMethod \/ DeclareMultigoalMethods \/ DeclareMultigoalMethod
    \/ DeclareAction \/ DeclareCommand

DomainSpec == DomainInit /\ [][DomainNext]_vars

\* the methods declared for a name of a registry, concatenated in call order
RECURSIVE DeclaredFor(_, _, _, _)
DeclaredFor(declared, registry, name, i) ==
    IF i > Len(declared) THEN <<>>
    ELSE (IF declared[i].registry = registry /\ declared[i].name = name
          THEN declared[i].methods ELSE <<>>)
         \o DeclaredFor(declared, registry, name, i + 1)

HasDeclaration(declared, registry, name) ==
    \E i \in 1..Len(declared) : declared[i].registry = registry /\ declared[i].name = name

\* the built-in methods a name has from construction on
Builtin(name) ==
    CASE name = "_verify_g" -> <<"verify_g_method">>
      [] name = "_verify_mg" -> <<"verify_mg_method">>
      [] OTHER -> <<>>

RegistryNames == TaskNames \cup {"_verify_mg", "loc", "other"}

\* C25: the registries keep registration order.  The method list of a name is
\* what the domain had for it from construction (the built-in method of
\* _verify_g and of _verify_mg, nothing for other names) followed by all the
\* methods declared for the name, in call order; a declaration only appends,
\* and no call makes a method list shorter or removes a name.
RegistriesKeepRegistrationOrder ==
    /\ [](\A name \in RegistryNames :
            /\ get_task_methods(building.domain, name)
                 = IF Builtin(name) # <<>> \/ HasDeclaration(building.declared, "task", name)
                   THEN [some |-> TRUE,
                         val |-> Builtin(name)
                                   \o DeclaredFor(building.declared, "task", name, 1)]
                   ELSE [some |-> FALSE]
            /\ get_unigoal_methods(building.domain, name)
                 = IF HasDeclaration(building.declared, "unigoal", name)
                   THEN [some |-> TRUE,
                         val |-> DeclaredFor(building.declared, "unigoal", name, 1)]
                   ELSE [some |-> FALSE])
    /\ [](get_multigoal_methods(building.domain)
            = DeclaredFor(building.declared, "multigoal", "", 1))
    /\ [][\A name \in RegistryNames :
            /\ get_task_methods(building.domain, name).some
                 => /\ get_task_methods(building'.domain, name).some
                    /\ IsPrefix(get_task_methods(building.domain, name).val,
                                get_task_methods(building'.domain, name).val)
            /\ get_unigoal_methods(building.domain, name).some
                 => /\ get_unigoal_methods(building'.domain, name).some
                    /\ IsPrefix(get_unigoal_methods(building.domain, name).val,
                                get_unigoal_methods(building'.domain, name).val)
            /\ IsPrefix(get_multigoal_methods(building.domain),
                        get_multigoal_methods(building'.domain))]_vars

\* put_it was given methods by three calls, a method for _verify_g was not
\* declared, and the lists hold them in call order
RegistriesKeepRegistrationOrderWitness ==
    /\ Len(building.declared) = 3
    /\ \A i \in 1..3 : building.declared[i].registry = "task"
                         /\ building.declared[i].name = "put_it"
    /\ get_task_methods(building.domain, "put_it") = Some(<<"m1", "m0", "m0", "m1">>)
    /\ get_task_methods(building.domain, "_verify_g") = Some(<<"verify_g_method">>)

(***************************************************************************)
(* Direct calls: a built-in verification task is handed to find_plan, or a *)
(* Multigoal is asked whether a state satisfies it.  One step is one call. *)
(***************************************************************************)
StateC == set_var(StateA, "loc", "bob", Str("park"))

ProbeStates == {StateNew, StateA, StateB, StateC}

Goal2 == set_goal(set_goal(MultigoalNew("goal2"), "flag", "value", Num(1)),
                  "loc", "alice", Str("park"))

ProbeGoals == { MultigoalNew("empty"), Goal1("k0"), Goal1("k1"), Goal2,
                set_goal(MultigoalNew("goal3"), "loc", "carol", Str("park")) }

\* [method_name, var_name, arg, desired_value, depth], and lists that are not so
VerifyGArgs ==
    { <<Str("u_move"), Str(v), Str(a), d, Num(depth)>> :
        v \in {"loc", "flag"}, a \in {"alice", "value"},
        d \in {Str("park"), Str("home"), Num(1)}, depth \in {0, 3} }
    \cup { <<Str("u_move"), Str("loc"), Str("alice"), Str("park")>>,
           <<Str("u_move"), Str("loc"), Str("alice"), Str("park"), Num(-1)>>,
           <<Str("u_move"), Num(1), Str("alice"), Str("park"), Num(0)>> }

\* [method_name, multigoal, depth], and lists that are not so
VerifyMgArgs ==
    { <<Str("mg_doc"), Obj(mg), Num(depth)>> : mg \in ProbeGoals, depth \in {0, 3} }
    \cup { <<Str("mg_doc"), Obj(Goal2)>>, <<Num(0), Obj(Goal2), Num(0)>> }

ProbeTodos ==
    { <<Task("_verify_g", args)>> : args \in VerifyGArgs }
    \cup { <<Task("_verify_mg", args)>> : args \in VerifyMgArgs }
    \cup { <<MultigoalItem(mg)>> : mg \in ProbeGoals }

ProbeInit ==
    /\ \E d \in {DomainNew("empty"), BacktrackingDomain} : planner = PlannerNew(d)
    /\ state0 \in ProbeStates
    /\ todo0 \in ProbeTodos
    /\ todo1 = todo0
    /\ pc = "probe"
    /\ stack = <<>>
    /\ results = [Iterative |-> Pending, Recursive |-> Pending, Repeated |-> Pending]
    /\ rll = NoLookahead
    /\ caller = NoCaller
    /\ globals = GlobalsNew
    /\ building = NotBuilding
    /\ probe = NoProbe

\* find_plan under both strategies
FoundBy(p, state, todo_list) ==
    [Iterative |-> find_plan(with_strategy(p, "Iterative"), state, todo_list),
     Recursive |-> find_plan(with_strategy(p, "Recursive"), state, todo_list)]

\* the first method the domain has for the task at the head of the todo list
HeadMethod == get_task_methods(planner.domain, todo0[1].name).val[1]

ProbeVerifyG ==
    /\ pc = "probe"
    /\ todo0[1].kind = "Task" /\ todo0[1].name = "_verify_g"
    /\ probe' = [op |-> "_verify_g",
                 ret |-> CallTaskMethod(HeadMethod, state0, todo0[1].args),
                 found |-> FoundBy(planner, state0, todo0)]
    /\ pc' = "probed"
    /\ UNCHANGED <<planner, state0, todo0, todo1, stack, results, rll, caller, globals,
                   building>>

ProbeVerifyMg ==
    /\ pc = "probe"
    /\ todo0[1].kind = "Task" /\ todo0[1].name = "_verify_mg"
    /\ probe' = [op |-> "_verify_mg",
                 ret |-> CallTaskMethod(HeadMethod, state0, todo0[1].args),
                 found |-> FoundBy(planner, state0, todo0)]
    /\ pc' = "probed"
    /\ UNCHANGED <<planner, state0, todo0, todo1, stack, results, rll, caller, globals,
                   building>>

ProbeIsSatisfiedBy ==
    /\ pc = "probe"
    /\ todo0[1].kind = "Multigoal"
    /\ probe' = [op |-> "is_satisfied_by",
                 ret |-> is_satisfied_by(todo0[1].mg, state0),
                 found |-> FoundBy(planner, state0, todo0)]
    /\ pc' = "probed"
    /\ UNCHANGED <<planner, state0, todo0, todo1, stack, results, rll, caller, globals,
                   building>>

ProbeUnsatisfiedGoals ==
    /\ pc = "probe"
    /\ todo0[1].kind = "Multigoal"
    /\ probe' = [op |-> "unsatisfied_goals",
                 ret |-> unsatisfied_goals(todo0[1].mg, state0),
                 found |-> FoundBy(planner, state0, todo0)]
    /\ pc' = "probed"
    /\ UNCHANGED <<planner, state0, todo0, todo1, stack, results, rll, caller, globals,
                   building>>

ProbeNext == ProbeVerifyG \/ ProbeVerifyMg \/ ProbeIsSatisfiedBy \/ ProbeUnsatisfiedGoals

ProbeSpec == ProbeInit /\ [][ProbeNext]_vars

(***************************************************************************)
(* Properties of the built-in verification methods and of Multigoal.       *)
(***************************************************************************)
Probed(op) == pc = "probed" /\ probe.op = op

\* the state has the cell and its value is the desired one
CellHolds(state, var_name, arg, value) ==
    /\ <<var_name, arg>> \in DOMAIN state.variables
    /\ state.variables[<<var_name, arg>>] = value

\* the cells of a multigoal: <<var_name, arg, value>>
Cells(mg) ==
    UNION { { <<mg.variables[i].var, mg.variables[i].goal_map[j].arg,
                mg.variables[i].goal_map[j].value>> :
                j \in 1..Len(mg.variables[i].goal_map) } :
            i \in 1..Len(mg.variables) }

\* the argument list has the form the method is documented to get
WellFormedMgArgs(args) ==
    Len(args) = 3 /\ args[1].t = "s" /\ args[2].t = "o" /\ args[3].t = "n" /\ args[3].n >= 0

\* C26: the built-in _verify_mg method of every Domain verifies the multigoal
\* it is given: the empty todo fragment when every cell of the multigoal is
\* satisfied by the state, not applicable when a cell is not.
VerifyMgVerifies ==
    (Probed("_verify_mg") /\ WellFormedMgArgs(todo0[1].args))
      => (probe.ret = [some |-> TRUE, val |-> <<>>]
            <=> \A c \in Cells(todo0[1].args[2].o) : CellHolds(state0, c[1], c[2], c[3]))

WellFormedGArgs(args) ==
    /\ Len(args) = 5
    /\ args[1].t = "s" /\ args[2].t = "s" /\ args[3].t = "s"
    /\ args[5].t = "n" /\ args[5].n >= 0

\* C27: the built-in _verify_g method, given [method_name, v, s, d, depth],
\* yields the empty todo fragment exactly when the state satisfies (v, s, d)
\* and is not applicable otherwise; find_plan on the task alone then returns
\* the empty plan in the first case and no plan in the second.
VerifyGVerifies ==
    (Probed("_verify_g") /\ WellFormedGArgs(todo0[1].args))
      => LET args == todo0[1].args
             holds == CellHolds(state0, args[2].s, args[3].s, args[4])
         IN  /\ holds => /\ probe.ret = [some |-> TRUE, val |-> <<>>]
                         /\ \A s \in Strategies :
                               probe.found[s] = [kind |-> "plan", plan |-> <<>>]
             /\ ~holds => /\ probe.ret = [some |-> FALSE]
                          /\ \A s \in Strategies :
                                probe.found[s] = [kind |-> "none", plan |-> <<>>]

\* _verify_g was called for flag[value] = 1 on a state where flag[value] is -1:
\* not applicable, and find_plan returns no plan
VerifyGVerifiesWitness ==
    /\ Probed("_verify_g")
    /\ WellFormedGArgs(todo0[1].args)
    /\ state0 = StateA
    /\ todo0[1].args[2] = Str("flag") /\ todo0[1].args[3] = Str("value")
    /\ todo0[1].args[4] = Num(1)
    /\ probe.ret = None
    /\ probe.found.Iterative.kind = "none"

\* C28: is_satisfied_by is true exactly when the state has every cell of the
\* multigoal with the desired value (a missing cell is unsatisfied, the empty
\* multigoal is satisfied by every state); unsatisfied_goals returns exactly
\* the cells that are not satisfied, so it is empty exactly when
\* is_satisfied_by is true.
MultigoalSatisfaction ==
    LET mg == todo0[1].mg
        unsatisfied == { c \in Cells(mg) : ~CellHolds(state0, c[1], c[2], c[3]) }
    IN  /\ Probed("is_satisfied_by") => (probe.ret <=> unsatisfied = {})
        /\ Probed("unsatisfied_goals")
             => /\ DOMAIN probe.ret = { <<c[1], c[2]>> : c \in unsatisfied }
                /\ \A c \in unsatisfied : probe.ret[<<c[1], c[2]>>] = c[3]
                /\ (DOMAIN probe.ret = {}) <=> is_satisfied_by(mg, state0)

\* a multigoal with a cell the state does not have and a cell it has
MultigoalSatisfactionWitness ==
    /\ Probed("unsatisfied_goals")
    /\ state0 = StateC
    /\ todo0[1].mg = Goal1("k1")
    /\ DOMAIN probe.ret = {<<"loc", "alice">>}

(***************************************************************************)
(* Alternatives of one frame (planner_instance.rs, Task and Unigoal        *)
(* branches of find_plan_iterative): what the frames waiting on the stack  *)
(* hold while a sibling is explored.                                       *)
(***************************************************************************)
\* one iteration of the loop popped a frame whose head is a task or a unigoal
AlternativesStep ==
    /\ pc = "iter" /\ pc' = "iter"
    /\ stack # <<>>
    /\ stack' # stack
    /\ Top(stack).todo_list # <<>>
    /\ Top(stack).todo_list[1].kind \in {"Task", "Unigoal"}

\* C29: every alternative (method) of a frame starts from the variables of the
\* state of the frame that was popped; a step of the search never changes a
\* frame waiting below the top of the stack; hence the state of every frame on
\* the stack is the initial state changed by that frame's own partial plan and
\* by nothing else: what a failed sibling did to its state is never seen.
SiblingsStartFromFrameState ==
    /\ [][AlternativesStep
            => \A k \in Len(stack)..Len(stack') :
                  stack'[k].state.variables = Top(stack).state.variables]_vars
    /\ [][(pc = "iter" /\ pc' = "iter" /\ stack # <<>>)
            => IsPrefix(Pop(stack), stack')]_vars
    /\ [](pc = "iter"
            => \A k \in 1..Len(stack) :
                  LET replay == ExecPlan(planner.domain, state0, stack[k].plan)
                  IN  /\ replay.some
                      /\ stack[k].state.variables = replay.val.variables)

\* put_it on a state whose flag is -1: the branch of m_err has put 0 in the flag
\* of its own state and died on getv(1); the frame of m0 that now is on top of
\* the stack still holds the flag -1, and the frame of m1 waits below it
SiblingsStartFromFrameStateWitness ==
    /\ pc = "iter"
    /\ planner.domain = BacktrackingDomain
    /\ state0 = StateA
    /\ todo0 = <<Task("put_it", <<>>)>>
    /\ Len(stack) = 2
    /\ Top(stack).todo_list = <<Action("putv", <<Num(0)>>), Action("getv", <<Num(0)>>)>>
    /\ Top(stack).plan = <<>>
    /\ get_var(Top(stack).state, "flag", "value") = Some(Num(-1))
    /\ get_var(stack[1].state, "flag", "value") = Some(Num(-1))

(***************************************************************************)
(* The search over every declared alternative.  find_plan is run on the    *)
(* inputs of Init with a state in which the multigoal method of the crate  *)
(* documentation achieves goal1 (bob is at the park already).              *)
(***************************************************************************)
CompletenessStates == {StateA, StateC}

CompletenessInit ==
    /\ rll = NoLookahead
    /\ building = NotBuilding
    /\ probe = NoProbe
    /\ caller = NoCaller
    /\ globals = GlobalsNew
    /\ \E d \in Domains, v \in BOOLEAN :
           planner = with_goal_verification(PlannerNew(d), v)
    /\ state0 \in CompletenessStates
    /\ todo0 \in Todos
    /\ todo1 \in {t \in Todos : TodoEq(t, todo0)}
    /\ pc = "start"
    /\ stack = <<>>
    /\ results = [Iterative |-> Pending, Recursive |-> Pending, Repeated |-> Pending]

CompletenessSpec == CompletenessInit /\ [][Next]_vars

\* the subtask lists the declared methods of an item return on a state, in
\* registration order (None for a method that is not applicable)
MethodChoices(p, state, item) ==
    CASE item.kind = "Task" ->
           LET methods == get_task_methods(p.domain, item.name)
           IN  IF methods.some
               THEN [i \in 1..Len(methods.val) |->
                        CallTaskMethod(methods.val[i], state, item.args)]
               ELSE <<>>
      [] item.kind = "Unigoal" ->
           LET methods == get_unigoal_methods(p.domain, item.name)
           IN  IF methods.some
               THEN [i \in 1..Len(methods.val) |->
                        CallUnigoalMethod(methods.val[i], state, item.arg, item.value)]
               ELSE <<>>
      [] item.kind = "Multigoal" ->
           LET methods == get_multigoal_methods(p.domain)
           IN  IF methods # <<>>
               THEN [i \in 1..Len(methods) |->
                        CallMultigoalMethod(methods[i], state, item.mg)]
               ELSE <<Some(UnigoalItems(item.mg))>>
      [] OTHER -> <<>>

\* the plan of the leftmost sequence of method choices that consumes the whole
\* todo list with every action applicable; no plan when every sequence fails
RECURSIVE ChoiceSearch(_, _, _, _)
RECURSIVE ChoiceAlternatives(_, _, _, _, _, _)
ChoiceAlternatives(p, state, choices, remaining_todo, depth, i) ==
    IF i > Len(choices) THEN OkNone
    ELSE LET sub == ChoiceSearch(p, StateCopy(state),
                                 choices[i].val \o remaining_todo, depth + 1)
         IN  IF choices[i].some /\ sub.kind # "none"
             THEN sub
             ELSE ChoiceAlternatives(p, state, choices, remaining_todo, depth, i + 1)

ChoiceSearch(p, state, todo_list, depth) ==
    IF todo_list = <<>> THEN OkSome(<<>>)
    ELSE IF depth >= MaxDepth THEN Diverged
    ELSE
    LET current_item == todo_list[1]
        remaining_todo == Tail(todo_list)
        satisfied ==
            CASE current_item.kind = "Unigoal" ->
                   satisfies_unigoal(state, current_item.name, current_item.arg,
                                     current_item.value)
              [] current_item.kind = "Multigoal" ->
                   is_satisfied_by(current_item.mg, state)
              [] OTHER -> FALSE
    IN  IF current_item.kind = "Action"
        THEN LET action_fn == get_action(p.domain, current_item.name)
                 new_state == IF action_fn.some
                              THEN CallAction(action_fn.val, StateCopy(state),
                                              current_item.args)
                              ELSE None
                 sub == ChoiceSearch(p, new_state.val, remaining_todo, depth + 1)
             IN  IF ~new_state.some THEN OkNone
                 ELSE IF sub.kind = "plan" THEN OkSome(<<current_item>> \o sub.plan)
                 ELSE sub
        ELSE IF satisfied THEN ChoiceSearch(p, state, remaining_todo, depth)
        ELSE ChoiceAlternatives(p, state, MethodChoices(p, state, current_item),
                                remaining_todo, depth, 1)

\* C30: on a finite search tree, when both strategies have returned, find_plan
\* has returned no plan only if every sequence of choices among the declared
\* methods of the items (task methods, unigoal methods, multigoal methods) fails,
\* and otherwise the plan of the leftmost sequence of choices that consumes the
\* whole todo list with every action applicable.
SearchCompleteness ==
    LET leftmost == ChoiceSearch(planner, state0, todo0, 0)
    IN  (pc = "done" /\ leftmost.kind # "diverged")
            => \A s \in Strategies : results[s] = leftmost

(***************************************************************************)
(* The strategy engines (planning/strategy.rs): RecursiveStrategy and      *)
(* IterativeStrategy, both seek_plan(context, state, todo_list, plan,      *)
(* depth).  A call of seek_plan is a frame; EngineExpand gives, for the    *)
(* frame of a call, the calls the recursive engine makes for its first     *)
(* item, in the order it makes them while the earlier ones fail.           *)
(***************************************************************************)
\* the _verify_g item of refine_unigoal_and_continue / refine_unigoal_iterative
VerifyGItem(item, depth) ==
    Task("_verify_g", <<Str("method_name"), Str(item.name), Str(item.arg),
                        item.value, Num(depth)>>)

\* the _verify_mg item of refine_multigoal_and_continue / refine_multigoal_iterative
VerifyMgItem(item, depth) ==
    Task("_verify_mg", <<Str("method_name"), Obj(item.mg), Num(depth)>>)

\* mutant: no verification item is inserted
Verification_never(context, verification) == <<>>

\* what is put between a goal method's subgoals and the remaining todo list
Verification(context, verification) ==
    IF context.verify_goals THEN <<verification>> ELSE <<>>

\* apply_action_and_continue / apply_action_iterative
apply_action(context, frame, action_name, args) ==
    LET action_fn == get_action(context.domain, action_name)
        result_state == IF action_fn.some
                        THEN CallAction(action_fn.val, StateCopy(frame.state), args)
                        ELSE None
    IN  IF result_state.some
        THEN <<PlanningFrame(result_state.val, Tail(frame.todo_list),
                             Append(frame.plan, Action(action_name, args)),
                             frame.depth + 1)>>
        ELSE <<>>

\* refine_task_and_continue / refine_task_iterative
refine_task(context, frame) ==
    LET item == frame.todo_list[1]
        methods == get_task_methods(context.domain, item.name)
        Applicable(m) == CallTaskMethod(m, frame.state, item.args).some
        tried == IF methods.some THEN SelectSeq(methods.val, Applicable) ELSE <<>>
    IN  [i \in 1..Len(tried) |->
            PlanningFrame(frame.state,
                          CallTaskMethod(tried[i], frame.state, item.args).val
                              \o Tail(frame.todo_list),
                          frame.plan, frame.depth + 1)]

\* the depth of the call that follows a goal the state satisfies already
AchievedDepth(depth) == depth + 1

\* refine_unigoal_and_continue / refine_unigoal_iterative
refine_unigoal(context, frame) ==
    LET item == frame.todo_list[1]
        methods == get_unigoal_methods(context.domain, item.name)
        Applicable(m) == CallUnigoalMethod(m, frame.state, item.arg, item.value).some
        tried == IF methods.some THEN SelectSeq(methods.val, Applicable) ELSE <<>>
    IN  IF satisfies_unigoal(frame.state, item.name, item.arg, item.value)
        THEN <<PlanningFrame(frame.state, Tail(frame.todo_list), frame.plan,
                             AchievedDepth(frame.depth))>>
        ELSE [i \in 1..Len(tried) |->
                PlanningFrame(frame.state,
                              CallUnigoalMethod(tried[i], frame.state, item.arg,
                                                item.value).val
                                  \o Verification(context, VerifyGItem(item, frame.depth))
                                  \o Tail(frame.todo_list),
                              frame.plan, frame.depth + 1)]

\* refine_multigoal_and_continue / refine_multigoal_iterative
refine_multigoal(context, frame) ==
    LET item == frame.todo_list[1]
        methods == get_multigoal_methods(context.domain)
        Applicable(m) == CallMultigoalMethod(m, frame.state, item.mg).some
        tried == SelectSeq(methods, Applicable)
    IN  [i \in 1..Len(tried) |->
            PlanningFrame(frame.state,
                          CallMultigoalMethod(tried[i], frame.state, item.mg).val
                              \o Verification(context, VerifyMgItem(item, frame.depth))
                              \o Tail(frame.todo_list),
                          frame.plan, frame.depth + 1)]

\* the match of seek_plan on the first item: Err(invalid_item_type) or the calls
EngineExpand(context, frame) ==
    LET item == frame.todo_list[1]
    IN  CASE item.kind = "Multigoal" ->
               [err |-> FALSE, calls |-> refine_multigoal(context, frame)]
          [] item.kind = "Task" ->
               IF has_action(context.domain, item.name)
               THEN [err |-> FALSE,
                     calls |-> apply_action(context, frame, item.name, item.args)]
               ELSE IF has_task_methods(context.domain, item.name)
               THEN [err |-> FALSE, calls |-> refine_task(context, frame)]
               ELSE [err |-> TRUE, calls |-> <<>>]
          [] item.kind = "Action" ->
               [err |-> FALSE,
                calls |-> apply_action(context, frame, item.name, item.args)]
          [] item.kind = "Unigoal" ->
               IF has_unigoal_methods(context.domain, item.name)
               THEN [err |-> FALSE, calls |-> refine_unigoal(context, frame)]
               ELSE [err |-> TRUE, calls |-> <<>>]

\* IterativeStrategy: refine_*_iterative return at the first applicable method,
\* and seek_plan pushes that one frame
IterativeStrategy_push(context, frame) ==
    LET calls == EngineExpand(context, frame).calls
    IN  IF calls = <<>> THEN <<>> ELSE <<calls[1]>>

\* RecursiveStrategy: the loop over the methods makes the next call when the
\* call before it has returned Failure; the calls not made yet wait below
RecursiveStrategy_push(context, frame) == Rev(EngineExpand(context, frame).calls)

(***************************************************************************)
(* The harness of the engines: IterativeStrategy::seek_plan is run on a    *)
(* context, a state and a todo list, one iteration of its loop per step,   *)
(* then RecursiveStrategy::seek_plan on the same input, one call per step. *)
(***************************************************************************)
Context == globals.PLANNING_CONTEXT.val

EngineInit ==
    /\ rll = NoLookahead
    /\ building = NotBuilding
    /\ probe = NoProbe
    /\ caller = NoCaller
    /\ \E d \in Domains, v \in BOOLEAN :
          /\ planner = PlannerNew(d)
          /\ globals = set_planning_context(GlobalsNew,
                           [PlanningContextNew(d) EXCEPT !.verify_goals = v])
    /\ state0 \in States0
    /\ todo0 \in Todos
    /\ todo1 = todo0
    /\ pc = "seek"
    /\ stack = <<>>
    /\ results = [Iterative |-> Pending, Recursive |-> Pending, Repeated |-> Pending]

\* the call of seek_plan: the stack of one tuple, or the outermost call
SeekStart(strategy, from, to) ==
    /\ pc = from
    /\ stack' = <<PlanningFrame(state0, todo0, <<>>, 0)>>
    /\ pc' = to
    /\ UNCHANGED <<rll, planner, state0, todo0, todo1, results, caller, globals,
                   building, probe>>

\* an empty todo list: Ok(Success(plan))
SeekReturn(strategy, at, to) ==
    /\ pc = at
    /\ stack # <<>>
    /\ Top(stack).todo_list = <<>>
    /\ results' = [results EXCEPT ![strategy] = OkSome(Top(stack).plan)]
    /\ stack' = <<>>
    /\ pc' = to
    /\ UNCHANGED <<rll, planner, state0, todo0, todo1, caller, globals, building, probe>>

\* an item that is neither an action nor has methods: Err(invalid_item_type)
SeekError(strategy, at, to) ==
    /\ pc = at
    /\ stack # <<>>
    /\ Top(stack).todo_list # <<>>
    /\ EngineExpand(Context, Top(stack)).err
    /\ results' = [results EXCEPT ![strategy] = Err]
    /\ stack' = <<>>
    /\ pc' = to
    /\ UNCHANGED <<rll, planner, state0, todo0, todo1, caller, globals, building, probe>>

\* nothing left to try: Ok(Failure)
SeekExhausted(strategy, at, to) ==
    /\ pc = at
    /\ stack = <<>>
    /\ results' = [results EXCEPT ![strategy] = OkNone]
    /\ pc' = to
    /\ UNCHANGED <<rll, planner, state0, todo0, todo1, stack, caller, globals,
                   building, probe>>

SeekIterative == SeekStart("Iterative", "seek", "seek_iter")

SeekIterReturn == SeekReturn("Iterative", "seek_iter", "seek_between")

SeekIterError == SeekError("Iterative", "seek_iter", "seek_between")

SeekIterExhausted == SeekExhausted("Iterative", "seek_iter", "seek_between")

\* one iteration of the loop of IterativeStrategy::seek_plan
SeekIterExpand ==
    /\ pc = "seek_iter"
    /\ stack # <<>>
    /\ Top(stack).todo_list # <<>>
    /\ Top(stack).depth < MaxDepth
    /\ ~EngineExpand(Context, Top(stack)).err
    /\ stack' = Pop(stack) \o IterativeStrategy_push(Context, Top(stack))
    /\ UNCHANGED <<rll, planner, state0, todo0, todo1, pc, results, caller, globals,
                   building, probe>>

SeekRecursive == SeekStart("Recursive", "seek_between", "seek_rec")

SeekRecReturn == SeekReturn("Recursive", "seek_rec", "seek_done")

SeekRecError == SeekError("Recursive", "seek_rec", "seek_done")

SeekRecExhausted == SeekExhausted("Recursive", "seek_rec", "seek_done")

\* one call of RecursiveStrategy::seek_plan on a todo list that is not empty
SeekRecExpand ==
    /\ pc = "seek_rec"
    /\ stack # <<>>
    /\ Top(stack).todo_list # <<>>
    /\ Top(stack).depth < MaxDepth
    /\ ~EngineExpand(Context, Top(stack)).err
    /\ stack' = Pop(stack) \o RecursiveStrategy_push(Context, Top(stack))
    /\ UNCHANGED <<rll, planner, state0, todo0, todo1, pc, results, caller, globals,
                   building, probe>>

EngineNext ==
    \/ SeekIterative \/ SeekIterReturn \/ SeekIterError \/ SeekIterExhausted
    \/ SeekIterExpand
    \/ SeekRecursive \/ SeekRecReturn \/ SeekRecError \/ SeekRecExhausted
    \/ SeekRecExpand

EngineSpec == EngineInit /\ [][EngineNext]_vars

\* C31: when both engines have returned on the same context, state and todo
\* list, IterativeStrategy::seek_plan has returned what RecursiveStrategy::
\* seek_plan has returned (it backtracks to the next method of an item when the
\* branch of the first applicable one fails).
EnginesAgree ==
    pc = "seek_done" => results.Iterative = results.Recursive

(***************************************************************************)
(* The method callables one iteration of find_plan_iterative invokes for   *)
(* the frame it popped, in the order of the invocations: the loop          *)
(* `for method in methods.iter().rev()` calls every method of the item.    *)
(***************************************************************************)
IterInvoked(p, frame) ==
    LET current_item == frame.todo_list[1]
        task_methods == get_task_methods(p.domain, current_item.name)
        unigoal_methods == get_unigoal_methods(p.domain, current_item.name)
    IN  CASE current_item.kind = "Task" /\ task_methods.some ->
               MethodPushOrder(task_methods.val)
          [] /\ current_item.kind = "Unigoal"
             /\ ~satisfies_unigoal(frame.state, current_item.name, current_item.arg,
                                   current_item.value)
             /\ unigoal_methods.some ->
               MethodPushOrder(unigoal_methods.val)
          [] OTHER -> <<>>

\* the methods registered for the first item of a frame, in registration order
Registered(p, frame) ==
    LET current_item == frame.todo_list[1]
    IN  CASE current_item.kind = "Task" /\ has_task_methods(p.domain, current_item.name) ->
               p.domain.task_methods[current_item.name]
          [] /\ current_item.kind = "Unigoal"
             /\ has_unigoal_methods(p.domain, current_item.name) ->
               p.domain.unigoal_methods[current_item.name]
          [] OTHER -> <<>>

\* C32: in every iteration of the iterative shape of find_plan, the method
\* callables invoked for the item of the frame are invoked in registration
\* order: the k-th invocation is that of the k-th registered method, so a later
\* method is invoked only after the earlier ones.
InvocationsInRegistrationOrder ==
    (pc = "iter" /\ stack # <<>> /\ Top(stack).todo_list # <<>>)
        => LET invoked == IterInvoked(planner, Top(stack))
           IN  \A k \in 1..Len(invoked) : invoked[k] = Registered(planner, Top(stack))[k]

(***************************************************************************)
(* The order in which find_plan_iterative pops the frames of the           *)
(* alternatives of one item.                                               *)
(***************************************************************************)
\* the subtasks of method m for the first item of a frame
SubtasksOf(m, frame) ==
    IF frame.todo_list[1].kind = "Task"
    THEN CallTaskMethod(m, frame.state, frame.todo_list[1].args)
    ELSE CallUnigoalMethod(m, frame.state, frame.todo_list[1].arg,
                           frame.todo_list[1].value)

\* the registered methods of the first item of a frame that are applicable,
\* when the iteration on the frame goes through the methods of the item
ApplicableOf(p, frame) ==
    LET Applicable(m) == SubtasksOf(m, frame).some
        current_item == frame.todo_list[1]
    IN  IF current_item.kind = "Unigoal"
           /\ satisfies_unigoal(frame.state, current_item.name, current_item.arg,
                                current_item.value)
        THEN <<>>
        ELSE SelectSeq(Registered(p, frame), Applicable)

\* C33: an iteration that goes through the methods of a task or of a unigoal
\* leaves the frames below the popped one as they were and puts the frames of the
\* applicable methods on top of them, the i-th applicable method in registration
\* order at the i-th place from the top: the first one is popped first, and all
\* that is pushed for it later lies above the frames of the later alternatives,
\* which are popped only when nothing above them is left.
DepthFirstOrder ==
    /\ [][AlternativesStep
            => LET frame == Top(stack)
                   applicable == ApplicableOf(planner, frame)
               IN  (applicable # <<>>)
                      => /\ Len(stack') = Len(stack) - 1 + Len(applicable)
                         /\ \A i \in 1..Len(applicable) :
                               stack'[Len(stack') + 1 - i].todo_list
                                   = SubtasksOf(applicable[i], frame).val
                                         \o Tail(frame.todo_list)]_vars
    /\ [][(pc = "iter" /\ stack # <<>> /\ stack' # <<>> /\ stack' # stack)
            => \A k \in 1..(Len(stack) - 1) :
                  k <= Len(stack') /\ stack'[k] = stack[k]]_vars

\* put_it was expanded and putv(0) of m_err, its first method, was applied: the
\* frame that descends from m_err lies on top of the frames of m0 and of m1
DepthFirstOrderWitness ==
    /\ pc = "iter"
    /\ planner.domain = BacktrackingDomain
    /\ todo0 = <<Task("put_it", <<>>)>>
    /\ Len(stack) = 3
    /\ stack[3].plan = <<Action("putv", <<Num(0)>>)>>
    /\ stack[3].todo_list = <<Action("getv", <<Num(1)>>)>>
    /\ stack[2].todo_list = <<Action("putv", <<Num(0)>>), Action("getv", <<Num(0)>>)>>
    /\ stack[1].todo_list = <<Action("putv", <<Num(1)>>), Action("getv", <<Num(1)>>)>>

(***************************************************************************)
(* The todo list of the frames find_plan_iterative pushes.                 *)
(***************************************************************************)
IsSuffix(a, b) ==
    Len(a) <= Len(b) /\ SubSeq(b, Len(b) - Len(a) + 1, Len(b)) = a

\* one iteration popped a frame whose todo list is not empty
ExpandStep ==
    /\ pc = "iter" /\ pc' = "iter"
    /\ stack # <<>>
    /\ stack' # stack
    /\ Top(stack).todo_list # <<>>

\* C34: the todo list of a frame pushed for a method of the first item of
\* [item] ++ rest is the method's subtasks followed by rest, with rest as it was
\* in content and in order (find_plan inserts no verification item); the todo
\* list of the frame pushed for an applied action is rest.
TodoExpansionIsPrefix ==
    [][ExpandStep
         => LET frame == Top(stack)
                item == frame.todo_list[1]
                rest == Tail(frame.todo_list)
            IN  \A k \in Len(stack)..Len(stack') :
                   LET todo == stack'[k].todo_list
                   IN  /\ IsSuffix(rest, todo)
                       /\ item.kind = "Action" => todo = rest
                       /\ (item.kind = "Task" \/ (item.kind = "Unigoal" /\ todo # rest))
                             => \E j \in 1..Len(Registered(planner, frame)) :
                                   LET sub == SubtasksOf(Registered(planner, frame)[j],
                                                         frame)
                                   IN  sub.some /\ todo = sub.val \o rest]_vars

\* put_it before need0: the frame on top holds the subtasks of m_err, the first
\* method of put_it, followed by the rest of the todo list
TodoExpansionIsPrefixWitness ==
    /\ pc = "iter"
    /\ planner.domain = BacktrackingDomain
    /\ todo0 = <<Task("put_it", <<>>), Task("need0", <<>>)>>
    /\ Len(stack) = 3
    /\ Top(stack).todo_list = <<Action("putv", <<Num(0)>>), Action("getv", <<Num(1)>>),
                                Task("need0", <<>>)>>

\* a step of one of the engines that expands a frame
EngineStep ==
    /\ pc \in {"seek_iter", "seek_rec"}
    /\ pc' = pc
    /\ stack # <<>>
    /\ stack' # stack
    /\ Top(stack).todo_list # <<>>

\* a step of one of the engines on a Unigoal the state does not satisfy
UnigoalMethodStep ==
    LET item == Top(stack).todo_list[1]
    IN  /\ EngineStep
        /\ item.kind = "Unigoal"
        /\ ~satisfies_unigoal(Top(stack).state, item.name, item.arg, item.value)

HeadAchieved ==
    LET frame == Top(stack)
        item == frame.todo_list[1]
    IN  \/ /\ item.kind = "Unigoal"
           /\ satisfies_unigoal(frame.state, item.name, item.arg, item.value)
        \/ /\ item.kind = "Multigoal"
           /\ is_satisfied_by(item.mg, frame.state)

\* C36: in the strategy engines, a call that consumes a Unigoal or a Multigoal
\* the state satisfies already is followed by one call on the rest of the todo
\* list with the same depth, while the calls that follow an applied action or a
\* method have depth + 1.
DepthAccounting ==
    [][EngineStep
         => LET frame == Top(stack)
            IN  IF HeadAchieved
                THEN stack' = Append(Pop(stack),
                                     PlanningFrame(frame.state, Tail(frame.todo_list),
                                                   frame.plan, frame.depth))
                ELSE \A k \in Len(stack)..Len(stack') :
                        stack'[k].depth = frame.depth + 1]_vars

(***************************************************************************)
(* The search tree of find_plan below a frame: the frame and, when its     *)
(* todo list is not empty, the trees below the frames its expansion        *)
(* pushes.  finite is FALSE when a branch is still growing at MaxDepth.    *)
(***************************************************************************)
RECURSIVE TreeSize(_, _)
RECURSIVE ForestSize(_, _, _)
TreeSize(p, frame) ==
    IF frame.todo_list = <<>> THEN [finite |-> TRUE, n |-> 1]
    ELSE IF frame.depth >= MaxDepth THEN [finite |-> FALSE, n |-> 1]
    ELSE LET below == ForestSize(p, ExpandFrame(p, frame), 1)
         IN  [finite |-> below.finite, n |-> 1 + below.n]

ForestSize(p, frames, i) ==
    IF i > Len(frames) THEN [finite |-> TRUE, n |-> 0]
    ELSE LET first == TreeSize(p, frames[i])
             others == ForestSize(p, frames, i + 1)
         IN  [finite |-> first.finite /\ others.finite, n |-> first.n + others.n]

FiniteTree == TreeSize(planner, PlanningFrame(state0, todo0, <<>>, 0)).finite

\* the first item is a task with a method that returns the task itself
LoopInput ==
    /\ HeadIs("Task")
    /\ todo0[1].name = "loop"
    /\ has_task_methods(planner.domain, "loop")

\* C37: on a finite search tree the loop of the iterative shape can always make
\* its next iteration, each iteration that expands a frame leaves fewer nodes of
\* the tree to visit, and both strategies return a plan or no plan; on a domain
\* where a method of the first task returns that task, each iteration replaces
\* the one frame by a frame one level deeper, the iterative call never returns,
\* and the recursive call does not return either.
Termination ==
    /\ [](FiniteTree
            => /\ (pc = "iter" /\ stack # <<>> /\ Top(stack).todo_list # <<>>)
                     => Top(stack).depth < MaxDepth
               /\ pc = "between"
                     => FindPlanRecursive(with_strategy(planner, "Recursive"),
                                          state0, todo0, 0).kind \in {"plan", "none"}
               /\ pc = "done"
                     => \A s \in Strategies : results[s].kind \in {"plan", "none"})
    /\ [][(FiniteTree /\ pc = "iter" /\ stack # <<>> /\ Top(stack).todo_list # <<>>)
            => /\ pc' = "iter"
               /\ ForestSize(planner, stack', 1).n < ForestSize(planner, stack, 1).n]_vars
    /\ [](LoopInput
            => /\ pc \in {"start", "iter"}
               /\ results.Iterative = Pending
               /\ pc = "iter" => (Len(stack) = 1 /\ Top(stack).todo_list = todo0)
               /\ FindPlanRecursive(with_strategy(planner, "Recursive"),
                                    state0, todo0, 0).kind = "diverged")
    /\ [][(LoopInput /\ pc = "iter")
            => Top(stack').depth = Top(stack).depth + 1]_vars

\* a finite tree of more than ten nodes was searched with backtracking and both
\* strategies have returned
TerminationWitness ==
    /\ pc = "done"
    /\ FiniteTree
    /\ TreeSize(planner, PlanningFrame(state0, todo0, <<>>, 0)).n > 10
    /\ todo0 = <<Task("put_it", <<>>), Task("need0", <<>>)>>
    /\ results.Iterative.kind = "plan"
    /\ results.Recursive.kind = "plan"

(***************************************************************************)
(* The frontier of find_plan_iterative and the search path of its frames.  *)
(***************************************************************************)
\* the number of alternatives of the first item of a frame: the methods
\* registered for a task or for a unigoal to achieve, one otherwise
Alternatives(p, frame) ==
    LET item == frame.todo_list[1]
    IN  IF \/ item.kind = "Task"
           \/ /\ item.kind = "Unigoal"
              /\ ~satisfies_unigoal(frame.state, item.name, item.arg, item.value)
        THEN Len(Registered(p, frame))
        ELSE 1

\* the loop run again from its first frame up to the stack `target`, with, for
\* every frame on the stack, the sum of the alternatives of the items expanded
\* on the path from the first frame to it
RECURSIVE PathSums(_, _, _, _)
PathSums(p, stk, sums, target) ==
    IF stk = target THEN sums
    ELSE IF stk = <<>> \/ Top(stk).todo_list = <<>> \/ Top(stk).depth >= MaxDepth
    THEN <<>>
    ELSE LET pushed == ExpandFrame(p, Top(stk))
             sum == sums[Len(sums)] + Alternatives(p, Top(stk))
         IN  PathSums(p, SubSeq(stk, 1, Len(stk) - 1) \o pushed,
                      SubSeq(sums, 1, Len(sums) - 1) \o [i \in 1..Len(pushed) |-> sum],
                      target)

InitialStack == <<PlanningFrame(state0, todo0, <<>>, 0)>>

\* C38: at every iteration of the iterative shape, the frames that wait on the
\* frontier while the popped frame is expanded are at most the sum of the
\* alternatives of the items expanded on the path to the popped frame, and once
\* an item has been expanded the whole frontier, the frame to pop next included,
\* is at most the sum for the path of that frame.
FrontierBound ==
    (pc = "iter" /\ stack # <<>>)
        => LET sums == PathSums(planner, InitialStack, <<0>>, stack)
           IN  /\ Len(sums) = Len(stack)
               /\ \A j \in 1..Len(stack) : j - 1 <= sums[j]
               /\ stack # InitialStack => Len(stack) <= sums[Len(stack)]

\* put_it (three methods) was expanded a second time, below the second method of
\* the first put_it and its two actions: four frames on the frontier (one of them
\* the third method of the first put_it), eight alternatives on the path
FrontierBoundWitness ==
    /\ pc = "iter"
    /\ planner.domain = BacktrackingDomain
    /\ state0 = StateA
    /\ todo0 = <<Task("put_it", <<>>), Task("put_it", <<>>)>>
    /\ Len(stack) = 4
    /\ PathSums(planner, InitialStack, <<0>>, stack)[4] = 8

(***************************************************************************)
(* run_lazy_lookahead: the items of the plans it executes.                 *)
(***************************************************************************)
\* C39: every item of a plan run_lazy_lookahead has obtained from find_plan is
\* an Action whose name has an action callable in the planner's domain; so when a
\* step of the plan is handled, a command c_<name> or the action <name> is found
\* (the branch for neither is not reached), and no item is skipped as a
\* non-action.
PlanStepsHaveCallables ==
    /\ \A k \in 1..Len(rll.planned) :
          LET found == rll.planned[k].found
          IN  found.kind = "plan"
                 => \A i \in 1..Len(found.plan) :
                       /\ found.plan[i].kind = "Action"
                       /\ has_action(planner.domain, found.plan[i].name)
    /\ (rll.pc = "exec" /\ rll.next <= Len(rll.plan))
          => /\ rll.plan[rll.next].kind = "Action"
             /\ NextCommand.found
             /\ \/ /\ has_command(planner.domain, "c_" \o rll.plan[rll.next].name)
                   /\ NextCommand.name
                         = planner.domain.commands["c_" \o rll.plan[rll.next].name]
                \/ /\ ~has_command(planner.domain, "c_" \o rll.plan[rll.next].name)
                   /\ NextCommand.name
                         = planner.domain.actions[rll.plan[rll.next].name]
    /\ \A k \in 1..Len(rll.executed) : rll.executed[k].item.kind = "Action"

\* the plan [putv(0), getv(0)] is being executed in a domain with a command for
\* getv and none for putv: the step putv(0) is handled by the action putv
PlanStepsHaveCallablesWitness ==
    /\ rll.pc = "exec"
    /\ rll.plan = <<Action("putv", <<Num(0)>>), Action("getv", <<Num(0)>>)>>
    /\ rll.next = 1
    /\ ~has_command(planner.domain, "c_putv")
    /\ has_command(planner.domain, "c_getv")
    /\ NextCommand.found
    /\ NextCommand.name = "putv"

====
